---- MODULE Spec2Model ----
(***************************************************************************)
(* The quality-control (kontroll) framework of ssb_sirius_dash:            *)
(* src/src/ssb_sirius_dash/control/framework.py.                           *)
(*                                                                         *)
(* The state is the module's two globals, error_list and                   *)
(* kontroll_dokumentasjon, the caller's DataFrame (frame), and a record of *)
(* the last call (its arguments, its outcome and what it returned).  The   *)
(* operations are a call of a function decorated with kontroll on the      *)
(* caller's frame, a call of lag_kvalitetsrapport, and a Kvalitetsrapport  *)
(* taken through to_dict and from_dict.  held is a report object the       *)
(* caller keeps; a field of it that was given one of the globals is that   *)
(* global (a reference), not a copy of it.                                 *)
(*                                                                         *)
(* Python values: None is the empty sequence and a present value x is      *)
(* <<x>>, wherever the code lets a value be None.  A DataFrame is its      *)
(* sequence of rows, each a record of the data columns, with the 'utslag'  *)
(* column kept apart (has says whether the frame has the column).          *)
(*                                                                         *)
(* Around the framework: the accuracy indicator of                         *)
(* modals/kvalitetsindikatorer.py, which reads a report's dict; the        *)
(* variable selector of setup/variableselector.py; the HbMethodAIO         *)
(* component of hb_method_aio.py (hb); the AlertHandler of                 *)
(* setup/alert_handler.py (alerts); and the wrapper run by several threads *)
(* (threads).  runs is the history of the control calls that returned.     *)
(* Each part has its own specification over the same variables.            *)
(***************************************************************************)
EXTENDS Integers, Sequences, FiniteSets, TLC

VARIABLES error_list, kontroll_dokumentasjon, frame, last, ncalls, scenario,
          held, hb, alerts, threads, runs, ui

vars == <<error_list, kontroll_dokumentasjon, frame, last, ncalls, scenario,
          held, hb, alerts,
                   threads, runs, ui>>

(* ------------------------------ bounds ------------------------------- *)

\* Input frames are drawn from the first MaxRows rows of the demo's data.
MaxRows == 3
\* Number of decorated-control calls in one run of the process.
MaxCalls == 2
\* Length of the list of edits a caller supplies to the accuracy indicator.
MaxEdits == 2
\* Length of the list of keys given to the variable selector.
MaxKeys == 2
\* Number of alerts created in one run of the application.
MaxAlerts == 3
\* The time, in seconds, up to which the interval of the alerts ticks.
MaxTime == 6
\* The largest number a user types into the score and high score inputs.
MaxScore == 2
\* Number of clicks on each sidebar button.
MaxClicks == 3
\* Number of alerts in the error log of the editing table.
MaxLog == 2

(* --------------------------- Python values --------------------------- *)

None == << >>
Some(x) == <<x>>
IsNone(o) == o = << >>

\* The positions of a boolean mask that hold, in increasing order.
RECURSIVE SelectIdx(_, _)
SelectIdx(mask, i) ==
    IF i > Len(mask) THEN << >>
    ELSE IF mask[i] THEN <<i>> \o SelectIdx(mask, i + 1)
    ELSE SelectIdx(mask, i + 1)

Range(s) == {s[i] : i \in DOMAIN s}

(* ------------------------------ the enum ----------------------------- *)

\* Kontrolltype: a member is modelled by its value.
AUTOMATISK_OPPRETTING == 0
MISSING == 1
MULIG_FEIL == 2
ABSOLUTT_FEIL == 3
Kontrolltype == <<AUTOMATISK_OPPRETTING, MISSING, MULIG_FEIL, ABSOLUTT_FEIL>>

\* member.name
KontrolltypeName(m) ==
    CASE m = AUTOMATISK_OPPRETTING -> "AUTOMATISK_OPPRETTING"
      [] m = MISSING -> "MISSING"
      [] m = MULIG_FEIL -> "MULIG_FEIL"
      [] m = ABSOLUTT_FEIL -> "ABSOLUTT_FEIL"

\* Kontrolltype[name]: the member of that name.
KontrolltypeByName(name) ==
    CHOOSE m \in Range(Kontrolltype) : KontrolltypeName(m) = name

(* ---------------------------- data frames ---------------------------- *)

\* demo/control_demo.py: eksempel_data.
eksempel_data ==
    << [Alder |-> 120, ident |-> 1], [Alder |-> 90, ident |-> 2],
       [Alder |-> -50, ident |-> 3], [Alder |-> 10, ident |-> 4],
       [Alder |-> 20, ident |-> 5], [Alder |-> 40, ident |-> 6] >>

Frame(rows, has, utslag) == [rows |-> rows, has |-> has, utslag |-> utslag]

\* data.shape[0]
Shape0(data) == Len(data.rows)

\* data[mask]: the rows where the boolean mask holds, every column kept.
RowsWhere(data, mask) ==
    LET idx == SelectIdx(mask, 1)
    IN  Frame([k \in 1..Len(idx) |-> data.rows[idx[k]]],
              data.has,
              IF data.has THEN [k \in 1..Len(idx) |-> data.utslag[idx[k]]]
              ELSE << >>)

\* DropUtslag with the result of drop discarded: the frame as it was.
DropUtslagNoop(data) == data

\* data.drop(columns=["utslag"])
DropUtslag(data) == Frame(data.rows, FALSE, << >>)

\* data["utslag"] = False
SetUtslagFalse(data) ==
    Frame(data.rows, TRUE, [k \in 1..Len(data.rows) |-> FALSE])

(* ------------------------ decorated functions ------------------------ *)

\* filter_for_relevant_data: the row filters the decorated controls use.
\* Each returns the rows of its argument that satisfy a condition on Alder.
FilterMask(f, data) ==
    [k \in 1..Len(data.rows) |->
        CASE f = "alder_notna" -> TRUE
          [] f = "alder_positiv" -> data.rows[k].Alder > 0]

filter_for_relevant_data(f, data) == RowsWhere(data, FilterMask(f, data))

\* betingelse: the condition a check function flags.
Betingelse(check, row) ==
    CASE check = "alder_over_100" -> row.Alder > 100
      [] check = "alder_under_0" -> row.Alder < 0
      [] check = "alder_minst_100" -> row.Alder >= 100
      [] check = "alder_minst_90" -> row.Alder >= 90

\* The demo's check functions start with data["utslag"] = False; a check
\* that relies on the wrapper's initialisation only sets its flags.
Resets(check) == check \in {"alder_over_100", "alder_under_0", "alder_minst_90"}

\* control_function(data): data.loc[betingelse, "utslag"] = True, then
\* return.  A check either writes its argument and returns it ("inplace")
\* or leaves its argument alone and returns a flagged copy ("copy").
\* arg is the argument as the call leaves it, ret the frame returned.
control_function(check, mode, data) ==
    LET flagged ==
            Frame(data.rows, TRUE,
                  [k \in 1..Len(data.rows) |->
                      \/ Betingelse(check, data.rows[k])
                      \/ (~Resets(check) /\ data.has /\ data.utslag[k])])
    IN  [ret |-> flagged, arg |-> IF mode = "inplace" THEN flagged ELSE data]

\* The functions decorated with kontroll: the decorator's arguments and
\* the function's name, docstring and check.  The first two are the demo's;
\* the third has a filter and important variables; the fourth redefines the
\* first under the same name with other arguments.
min_kontrollfunksjon_1 ==
    [name |-> "min_kontrollfunksjon_1", result_type |-> MULIG_FEIL,
     error_description |-> "Veldig hoy alder", id_column |-> "ident",
     filter_for_relevant_data |-> None, important_variables |-> None,
     doc |-> Some("Sjekker etter ekstremt hoy alder"),
     check |-> "alder_over_100"]

min_kontrollfunksjon_2 ==
    [name |-> "min_kontrollfunksjon_2", result_type |-> ABSOLUTT_FEIL,
     error_description |-> "Ugyldig verdi", id_column |-> "ident",
     filter_for_relevant_data |-> None, important_variables |-> None,
     doc |-> Some("Sjekker at alder har gyldig verdi"),
     check |-> "alder_under_0"]

kontroll_med_filter ==
    [name |-> "kontroll_med_filter", result_type |-> MISSING,
     error_description |-> "Hoy alder", id_column |-> "ident",
     filter_for_relevant_data |-> Some("alder_positiv"),
     important_variables |-> Some(<<"Alder">>),
     doc |-> None,
     check |-> "alder_minst_100"]

min_kontrollfunksjon_1_redefinert ==
    [name |-> "min_kontrollfunksjon_1", result_type |-> ABSOLUTT_FEIL,
     error_description |-> "Umulig alder", id_column |-> "ident",
     filter_for_relevant_data |-> Some("alder_notna"),
     important_variables |-> Some(<<"Alder", "ident">>),
     doc |-> Some("Sjekker alder"),
     check |-> "alder_minst_90"]

Decorated ==
    {min_kontrollfunksjon_1, min_kontrollfunksjon_2, kontroll_med_filter,
     min_kontrollfunksjon_1_redefinert}

\* Decorated functions whose call fails: one whose id_column is no column
\* of the data, one whose check function raises.
kontroll_uten_id ==
    [name |-> "kontroll_uten_id", result_type |-> MULIG_FEIL,
     error_description |-> "Veldig hoy alder", id_column |-> "orgnr",
     filter_for_relevant_data |-> None, important_variables |-> None,
     doc |-> None,
     check |-> "alder_over_100"]

kontroll_som_feiler ==
    [name |-> "min_kontrollfunksjon_2", result_type |-> ABSOLUTT_FEIL,
     error_description |-> "Ugyldig verdi", id_column |-> "ident",
     filter_for_relevant_data |-> None, important_variables |-> None,
     doc |-> None,
     check |-> "kaster_feil"]

DecoratedFailing == {kontroll_uten_id, kontroll_som_feiler}

Modes == {"inplace", "copy"}

(* ---------------------------- the wrapper ---------------------------- *)

\* Feilrapport.__init__
Feilrapport(sub_control_id, result_type, context_id, error_description, important_variables) ==
    [sub_control_id |-> sub_control_id, result_type |-> result_type,
     context_id |-> context_id, error_description |-> error_description,
     important_variables |-> important_variables]

\* Prepare with the flag column kept when the data has one: no drop, and
\* the column initialised only when it is missing.
PrepareKeepsFlags(ctrl, data_in) ==
    LET filtered ==
            IF ~IsNone(ctrl.filter_for_relevant_data)
            THEN filter_for_relevant_data(ctrl.filter_for_relevant_data[1],
                                          data_in)
            ELSE data_in
    IN  [total_data |-> IF ~IsNone(ctrl.filter_for_relevant_data)
                        THEN Some(Shape0(data_in)) ELSE None,
         data |-> IF filtered.has THEN filtered ELSE SetUtslagFalse(filtered)]

\* Prepare with total_data counted after the filter instead of before it.
PrepareCountsAfterFilter(ctrl, data_in) ==
    LET dropped == IF data_in.has THEN DropUtslag(data_in) ELSE data_in
        filtered ==
            IF ~IsNone(ctrl.filter_for_relevant_data)
            THEN filter_for_relevant_data(ctrl.filter_for_relevant_data[1],
                                          dropped)
            ELSE dropped
    IN  [total_data |-> IF ~IsNone(ctrl.filter_for_relevant_data)
                        THEN Some(Shape0(filtered)) ELSE None,
         data |-> SetUtslagFalse(filtered)]

\* wrapper, up to the call of the check: copy, drop an existing flag
\* column, filter and count, initialise the flag column.
Prepare(ctrl, data_in) ==
    LET copied == data_in
        dropped == IF copied.has THEN DropUtslag(copied) ELSE copied
        filtered ==
            IF ~IsNone(ctrl.filter_for_relevant_data)
            THEN filter_for_relevant_data(ctrl.filter_for_relevant_data[1],
                                          dropped)
            ELSE dropped
    IN  [total_data |-> IF ~IsNone(ctrl.filter_for_relevant_data)
                        THEN Some(Shape0(dropped)) ELSE None,
         data |-> SetUtslagFalse(filtered)]

\* ErrorRows without the mask: every row of the frame.
ErrorRowsUnmasked(filtered_data) == filtered_data

\* error_rows = filtered_data[filtered_data["utslag"]]
ErrorRows(filtered_data) == RowsWhere(filtered_data, filtered_data.utslag)

\* NewErrorDetails with the frame's index label (the row's position in
\* eksempel_data, from 0) as context_id instead of row[id_column].
NewErrorDetailsIndex(ctrl, error_rows) ==
    [k \in 1..Len(error_rows.rows) |->
        Feilrapport(ctrl.name, ctrl.result_type,
                    error_rows.rows[k][ctrl.id_column] - 1,
                    ctrl.error_description, ctrl.important_variables)]

\* new_error_details: one Feilrapport per row of error_rows.
NewErrorDetails(ctrl, error_rows) ==
    [k \in 1..Len(error_rows.rows) |->
        Feilrapport(ctrl.name, ctrl.result_type,
                    error_rows.rows[k][ctrl.id_column],
                    ctrl.error_description, ctrl.important_variables)]

\* Python's truth value of total_data (None or an int).
Truthy(total_data) == ~IsNone(total_data) /\ total_data[1] # 0

\* DocEntry with the two row counts exchanged.
DocEntrySwapped(ctrl, total_data, data, error_rows) ==
    [kontrolltype |-> KontrolltypeName(ctrl.result_type),
     feilbeskrivelse |-> ctrl.error_description,
     docstring |-> ctrl.doc,
     Enheter_i_datasettet |-> Shape0(data),
     Enheter_kontrollert |->
         IF Truthy(total_data) THEN total_data[1] ELSE Shape0(data),
     Kontrollutslag |-> Shape0(error_rows),
     Relevante_variabler |->
         IF ~IsNone(ctrl.important_variables) /\ ctrl.important_variables[1] # << >>
         THEN ctrl.important_variables ELSE None]

\* The entry written to kontroll_dokumentasjon.  Relevante_variabler is
\* None when the entry has no such key.
DocEntry(ctrl, total_data, data, error_rows) ==
    [kontrolltype |-> KontrolltypeName(ctrl.result_type),
     feilbeskrivelse |-> ctrl.error_description,
     docstring |-> ctrl.doc,
     Enheter_i_datasettet |->
         IF Truthy(total_data) THEN total_data[1] ELSE Shape0(data),
     Enheter_kontrollert |-> Shape0(data),
     Kontrollutslag |-> Shape0(error_rows),
     Relevante_variabler |->
         IF ~IsNone(ctrl.important_variables) /\ ctrl.important_variables[1] # << >>
         THEN ctrl.important_variables ELSE None]

\* DictSet as d[k].update(v): an entry already there keeps the key
\* 'Relevante variabler' when v has none.
DictUpdate(d, k, v) ==
    [x \in (DOMAIN d) \cup {k} |->
        IF x # k THEN d[x]
        ELSE IF k \in DOMAIN d /\ IsNone(v.Relevante_variabler)
        THEN [v EXCEPT !.Relevante_variabler = d[k].Relevante_variabler]
        ELSE v]

\* DictSet as d.setdefault(k, v): an entry already there is kept.
DictSetDefault(d, k, v) ==
    [x \in (DOMAIN d) \cup {k} |-> IF x \in DOMAIN d THEN d[x] ELSE v]

\* d[k] = v
DictSet(d, k, v) == [x \in (DOMAIN d) \cup {k} |-> IF x = k THEN v ELSE d[x]]

\* Extend as an assignment: error_list = new_error_details.
ExtendReplaces(el, new_error_details) == new_error_details

\* error_list.extend(new_error_details)
Extend(el, new_error_details) == el \o new_error_details

\* The check function raises instead of returning.
CheckRaises(check) == check = "kaster_feil"

\* row[id_column] raises KeyError for some row of error_rows.
MissingIdColumn(ctrl, error_rows) ==
    \E k \in 1..Len(error_rows.rows) :
        ctrl.id_column \notin DOMAIN error_rows.rows[k]

\* The call ends in an exception that the wrapper does not catch; the
\* globals are as the statements run so far left them.
Raised(exc, el, kd) ==
    [outcome |-> exc, error_list |-> el, kontroll_dokumentasjon |-> kd,
     returned |-> None]

\* A frame is an object: the caller's ("caller") or one made during the
\* call ("fresh").  data = data with no copy: the same object.
copy_same_object(obj) == obj

\* data.copy(), line 109: a new object.
copy(obj) == "fresh"

\* The object the wrapper's data names at line 124: drop(columns=...) and
\* the boolean indexing of the filter return new objects.
WrapperObject(ctrl, data_in) ==
    LET copied == copy("caller")
        dropped == IF data_in.has THEN "fresh" ELSE copied
    IN  IF ~IsNone(ctrl.filter_for_relevant_data) THEN "fresh" ELSE dropped

\* The caller's table after the call: line 124 and a check function that
\* writes its argument write the object data names; a check function that
\* raises does so after line 124.
CallerAfter(ctrl, mode, data_in) ==
    IF WrapperObject(ctrl, data_in) # "caller" THEN data_in
    ELSE IF CheckRaises(ctrl.check) THEN Prepare(ctrl, data_in).data
    ELSE control_function(ctrl.check, mode, Prepare(ctrl, data_in).data).arg

\* wrapper with the documentation entry written before new_error_details
\* is built.
wrapperDocFirst(ctrl, mode, data_in, el, kd) ==
    IF CheckRaises(ctrl.check) THEN Raised("Exception", el, kd)
    ELSE
    LET prep == Prepare(ctrl, data_in)
        call == control_function(ctrl.check, mode, prep.data)
        error_rows == ErrorRows(call.ret)
        kd2 == DictSet(kd, ctrl.name,
                       DocEntry(ctrl, prep.total_data, call.arg, error_rows))
    IN  IF MissingIdColumn(ctrl, error_rows) THEN Raised("KeyError", el, kd2)
        ELSE [outcome |-> "returned",
              error_list |-> Extend(el, NewErrorDetails(ctrl, error_rows)),
              kontroll_dokumentasjon |-> kd2,
              returned |-> DropUtslag(call.arg)]

\* wrapper(data): how the call ends, the new globals and the frame
\* returned.  An exception of the check function (line 125) or of
\* row[id_column] (line 132) propagates before error_list is extended.
wrapper(ctrl, mode, data_in, el, kd) ==
    IF CheckRaises(ctrl.check) THEN Raised("Exception", el, kd)
    ELSE
    LET prep == Prepare(ctrl, data_in)
        call == control_function(ctrl.check, mode, prep.data)
        filtered_data == call.ret
        data == call.arg
        error_rows == ErrorRows(filtered_data)
    IN  IF MissingIdColumn(ctrl, error_rows) THEN Raised("KeyError", el, kd)
        ELSE [outcome |-> "returned",
              error_list |-> Extend(el, NewErrorDetails(ctrl, error_rows)),
              kontroll_dokumentasjon |->
                  DictSet(kd, ctrl.name,
                          DocEntry(ctrl, prep.total_data, data, error_rows)),
              returned |-> DropUtslag(data)]

(* ---------------------------- the report ----------------------------- *)

\* A datetime is its seconds and its microseconds.  isoformat() writes the
\* fraction only when the microseconds are not zero; fromisoformat() reads
\* a missing fraction as zero microseconds.
Datetime(sek, mikrosek) == [sek |-> sek, mikrosek |-> mikrosek]

\* isoformat(timespec="seconds"): the fraction never written.
isoformatSeconds(dt) == [sek |-> dt.sek, frac |-> None]

isoformat(dt) ==
    [sek |-> dt.sek,
     frac |-> IF dt.mikrosek = 0 THEN None ELSE Some(dt.mikrosek)]

fromisoformat(str) ==
    Datetime(str.sek, IF IsNone(str.frac) THEN 0 ELSE str.frac[1])

\* Feilrapport.to_dict
FeilrapportToDict(e) ==
    [kontrollnavn |-> e.sub_control_id,
     kontrolltype |-> KontrolltypeName(e.result_type),
     observasjon_id |-> e.context_id,
     feilbeskrivelse |-> e.error_description,
     relevante_variabler |-> e.important_variables]

\* Kvalitetsrapport.__init__: its parameters, and the object it builds.
KvalitetsrapportParams ==
    {"statistics_name", "quality_control_id", "data_location", "data_period",
     "quality_control_datetime", "quality_control_results",
     "quality_control_errors", "quality_control_documentation"}

Kvalitetsrapport(statistics_name, quality_control_id, data_location, data_period, quality_control_datetime, quality_control_results, quality_control_errors, quality_control_documentation) ==
    [statistics_name |-> statistics_name,
     quality_control_id |-> quality_control_id,
     data_location |-> data_location,
     data_period |-> data_period,
     quality_control_datetime |-> quality_control_datetime,
     quality_control_results |-> quality_control_results,
     quality_control_errors |-> quality_control_errors,
     quality_control_documentation |-> quality_control_documentation]

\* Kvalitetsrapport.to_dict; kd is the global kontroll_dokumentasjon.
to_dict(r, kd) ==
    [statistikknavn |-> r.statistics_name,
     quality_control_id |-> r.quality_control_id,
     data_plassering |-> r.data_location,
     data_periode |-> r.data_period,
     kvalitetsrapport_opprettet |-> isoformat(r.quality_control_datetime),
     typer_kontrollutslag |->
         [k \in 1..Len(r.quality_control_results) |->
             KontrolltypeName(r.quality_control_results[k])],
     kontrollutslag |->
         [k \in 1..Len(r.quality_control_errors) |->
             FeilrapportToDict(r.quality_control_errors[k])],
     kontrolldokumentasjon |->
         IF ~IsNone(r.quality_control_documentation)
         THEN r.quality_control_documentation[1] ELSE kd]

\* Kvalitetsrapport.from_dict
from_dict(d) ==
    Kvalitetsrapport(
        d.statistikknavn,
        d.quality_control_id,
        d.data_plassering,
        d.data_periode,
        fromisoformat(d.kvalitetsrapport_opprettet),
        [k \in 1..Len(d.typer_kontrollutslag) |->
            KontrolltypeByName(d.typer_kontrollutslag[k])],
        [k \in 1..Len(d.kontrollutslag) |->
            Feilrapport(d.kontrollutslag[k].kontrollnavn,
                        KontrolltypeByName(d.kontrollutslag[k].kontrolltype),
                        d.kontrollutslag[k].observasjon_id,
                        d.kontrollutslag[k].feilbeskrivelse,
                        d.kontrollutslag[k].relevante_variabler)],
        Some(d.kontrolldokumentasjon))

\* lag_kontroll_dokumentasjon: one row per control, with a period column.
lag_kontroll_dokumentasjon(r, kd) ==
    LET d == to_dict(r, kd)
    IN  {[kontroll_id |-> n, entry |-> d.kontrolldokumentasjon[n],
          periode |-> d.data_periode] : n \in DOMAIN d.kontrolldokumentasjon}

\* The truth value of an enum member: Kontrolltype is a plain Enum, whose
\* members are all true, whatever their value.
MemberTruthy(m) == TRUE

\* The names Kontrolltype has an attribute for.
HasMember(name) == \E m \in Range(Kontrolltype) : KontrolltypeName(m) = name

\* The keyword arguments lag_kvalitetsrapport passes to Kvalitetsrapport.
ReportKwargs ==
    {"statistics_name", "quality_control_id", "data_location", "data_period",
     "quality_control_datetime", "quality_control_results",
     "quality_control_errors", "corrections"}

\* quality_results: the members of Kontrolltype, in definition order, that
\* some error of the list has.
QualityResults(control_errors) ==
    LET idx == SelectIdx([k \in 1..Len(Kontrolltype) |->
                            \E j \in 1..Len(control_errors) :
                                control_errors[j].result_type = Kontrolltype[k]],
                         1)
    IN  [k \in 1..Len(idx) |-> Kontrolltype[idx[k]]]

\* ArgumentsGiven without the assertion on data_location.
ArgumentsGivenButLocation(statistics_name, data_location, data_period) ==
    ~IsNone(statistics_name) /\ ~IsNone(data_period)

\* The three assertions that open lag_kvalitetsrapport all pass.
ArgumentsGiven(statistics_name, data_location, data_period) ==
    ~IsNone(statistics_name) /\ ~IsNone(data_location) /\ ~IsNone(data_period)

\* lag_kvalitetsrapport: how the call ends (returned or the exception
\* raised) and, when it returns, the report and the documentation table.
\* el and kd are the globals, now is datetime.now().
lag_kvalitetsrapport(statistics_name, data_location, data_period, also_return_control_docs, now, el, kd) ==
    LET quality_results == QualityResults(el)
        report ==
            Kvalitetsrapport(statistics_name[1],
                "A reference (or link/uri) to the quality control description",
                <<data_location[1]>>, data_period[1], now, quality_results,
                el, None)
        raised(exc) == [outcome |-> exc, report |-> None, docs |-> None]
    IN  IF ~ArgumentsGiven(statistics_name, data_location, data_period)
        THEN raised("AssertionError")
        ELSE IF ~(\E k \in 1..Len(quality_results) :
                     MemberTruthy(quality_results[k]))
                /\ ~HasMember("OK")
        THEN raised("AttributeError")
        ELSE IF ~(ReportKwargs \subseteq KvalitetsrapportParams)
        THEN raised("TypeError")
        ELSE [outcome |-> "returned", report |-> Some(report),
              docs |-> IF also_return_control_docs
                       THEN Some(lag_kontroll_dokumentasjon(report, kd))
                       ELSE None]

(* ------------------------------ inputs ------------------------------- *)

\* The values of an 'utslag' column left by an earlier run: every row
\* flagged, no row flagged, every other row flagged.
StaleColumns(n) ==
    {[k \in 1..n |-> TRUE], [k \in 1..n |-> FALSE], [k \in 1..n |-> k % 2 = 1]}

\* The frames a caller starts with: rows of eksempel_data among the first
\* MaxRows, in order, with no 'utslag' column or with a stale one.
Subframe(S) ==
    LET mask == [k \in 1..MaxRows |-> k \in S]
        idx == SelectIdx(mask, 1)
    IN  [k \in 1..Len(idx) |-> eksempel_data[idx[k]]]

InputFrames ==
    UNION { LET rows == Subframe(S)
            IN  {Frame(rows, FALSE, << >>)}
                \cup {Frame(rows, TRUE, u) : u \in StaleColumns(Len(rows))}
          : S \in SUBSET (1..MaxRows) }

\* The scenario's data: the first three rows of eksempel_data.
ScenarioData ==
    Frame([k \in 1..3 |-> eksempel_data[k]], FALSE, << >>)

\* Where a run stands in the scenario "control 1, then control 2, on
\* ScenarioData, from empty globals".
ScenarioStep(sc, ctrl, data) ==
    IF sc = "start" /\ ctrl = min_kontrollfunksjon_1 /\ data = ScenarioData
    THEN "etter_1"
    ELSE IF sc = "etter_1" /\ ctrl = min_kontrollfunksjon_2
            /\ data = ScenarioData
    THEN "etter_2"
    ELSE "annet"

\* What the claims say of a control call, stated from the call's arguments:
\* the rows of the caller's frame the configured filter keeps, and those
\* of them the check's condition flags.
Passes(ctrl, row) ==
    \/ IsNone(ctrl.filter_for_relevant_data)
    \/ ctrl.filter_for_relevant_data = Some("alder_notna")
    \/ ctrl.filter_for_relevant_data = Some("alder_positiv") /\ row.Alder > 0

CheckedIdx(ctrl, data) ==
    {k \in 1..Len(data.rows) : Passes(ctrl, data.rows[k])}

FlaggedIdx(ctrl, data) ==
    {k \in CheckedIdx(ctrl, data) : Betingelse(ctrl.check, data.rows[k])}

(* --------------------------- AlertHandler ----------------------------- *)
(* setup/alert_handler.py.  alerts holds the data of the two dcc.Store     *)
(* components of the layout (alert_store, alert_filter), the children of   *)
(* alert_modal_container as show_modal_alerts last returned them, and the  *)
(* clock that create_alert reads.                                          *)

\* create_alert at time now: timestamp and created_at are both the time.
create_alert(message, color, ephemeral, now) ==
    [timestamp |-> now, message |-> message, color |-> color,
     ephemeral |-> ephemeral, created_at |-> now]

\* set_filter, by the id of the button that triggered it.
set_filter(triggered_id) ==
    CASE triggered_id = "alert_filter_info" -> "info"
      [] triggered_id = "alert_filter_warning" -> "warning"
      [] triggered_id = "alert_filter_danger" -> "danger"
      [] OTHER -> "all"

FilterButtons ==
    {"alert_filter_all", "alert_filter_info", "alert_filter_warning",
     "alert_filter_danger"}

\* show_modal_alerts: a dismissable, open dbc.Alert for each alert of the
\* store that the filter lets through (FilteredAlerts), with its position
\* in that list as the index of its id.
FilteredAlerts(alert_list, current_filter) ==
    IF current_filter # "all"
    THEN SelectSeq(alert_list, LAMBDA a : a.color = current_filter)
    ELSE alert_list

show_modal_alerts(alert_list, current_filter) ==
    LET shown == FilteredAlerts(alert_list, current_filter)
    IN  [i \in 1..Len(shown) |->
            [timestamp |-> shown[i].timestamp, message |-> shown[i].message,
             color |-> shown[i].color, is_open |-> TRUE, index |-> i - 1]]

\* The loop of remove_dismissed_alerts from display_index on: an alert of
\* the store is kept when the is_open value at display_index is true or
\* when there is no such value.
RECURSIVE remove_dismissed_loop(_, _, _)
remove_dismissed_loop(is_open_list, current_alerts, display_index) ==
    IF current_alerts = << >> THEN << >>
    ELSE LET alert_item == Head(current_alerts)
         IN  IF display_index < Len(is_open_list)
             THEN (IF is_open_list[display_index + 1] THEN <<alert_item>>
                   ELSE << >>)
                  \o remove_dismissed_loop(is_open_list, Tail(current_alerts),
                                           display_index + 1)
             ELSE <<alert_item>>
                  \o remove_dismissed_loop(is_open_list, Tail(current_alerts),
                                           display_index)

\* display_ephemeral_alerts whose age limit includes 4 seconds.
display_ephemeral_alerts_upto(alert_list, now) ==
    LET ephemeral_alerts ==
            SelectSeq(alert_list,
                      LAMBDA a : a.ephemeral /\ now - a.created_at <= 4)
    IN  [i \in 1..Len(ephemeral_alerts) |->
            [timestamp |-> ephemeral_alerts[i].timestamp,
             message |-> ephemeral_alerts[i].message,
             color |-> ephemeral_alerts[i].color]]

\* display_ephemeral_alerts at time now: a dbc.Alert for each alert of the
\* store that is ephemeral and was created less than 4 seconds ago.
display_ephemeral_alerts(alert_list, now) ==
    LET ephemeral_alerts ==
            SelectSeq(alert_list,
                      LAMBDA a : a.ephemeral /\ now - a.created_at < 4)
    IN  [i \in 1..Len(ephemeral_alerts) |->
            [timestamp |-> ephemeral_alerts[i].timestamp,
             message |-> ephemeral_alerts[i].message,
             color |-> ephemeral_alerts[i].color]]

remove_dismissed_alerts(is_open_list, current_alerts) ==
    IF current_alerts = << >> \/ is_open_list = << >> THEN current_alerts
    ELSE remove_dismissed_loop(is_open_list, current_alerts, 0)

(* ------------------------- the user interface ------------------------- *)
(* ui holds the properties of the components that the callbacks below     *)
(* read and write: the Pi memorizer's text box, score and high score, the *)
(* style of main-varvelger, is_open of the four modals and the clicks of  *)
(* their buttons, and the children of error_log.                          *)

\* The modals with a toggle callback, and is_open as the layout gives it:
\* only the HB modal's layout sets it.
Modals == {"control-modal", "kvalitetsindikatorer-modal", "alerts_modal",
           "hb-modal"}

ModalIsOpen(m) == IF m = "hb-modal" THEN Some(FALSE) ELSE None

\* The toggle callbacks registered with prevent_initial_call=True: they are
\* not called when the page loads.
PreventInitialCall(m) == m = "alerts_modal"

\* The truth value of n_clicks (None or an int) and of is_open (None or a
\* bool).
ClicksTruthy(n) == ~IsNone(n) /\ n[1] # 0

OpenTruthy(is_open) == ~IsNone(is_open) /\ is_open[1]

\* toggle_varvelger: with clicks, the style {} when the style is
\* {"display": "none"} and {"display": "none"} otherwise; without clicks
\* the function ends without a return statement, which returns None.
toggle_varvelger(n_clicks, style) ==
    IF ClicksTruthy(n_clicks)
    THEN IF ~IsNone(style) /\ DOMAIN style[1] = {"display"}
            /\ style[1]["display"] = "none"
         THEN Some(<< >>)
         ELSE Some([display |-> "none"])
    ELSE None

\* A toggle that opens the modal at every click.
modal_toggle_opens(n, is_open) ==
    IF ClicksTruthy(n) THEN Some(TRUE) ELSE is_open

\* controlmodal_toggle, kvalitetsindikatorermodal_toggle, toggle_modal and
\* sqlmodal_toggle, which have the same body.
modal_toggle(n, is_open) ==
    IF ClicksTruthy(n) THEN Some(~OpenTruthy(is_open)) ELSE is_open

(* --------------------------- Pi memorizer ----------------------------- *)
(* tabs/pi_memorizer.py.  A string is the sequence of its characters.      *)

\* The first characters of pi = str(mp.pi), which has 1000 digits.
pi == <<"3", ".", "1", "4", "1", "5", "9", "2", "6", "5", "3", "5">>

\* pi[:n]
PiSlice(n) == SubSeq(pi, 1, IF n < Len(pi) THEN n ELSE Len(pi))

\* current_value or "" and current_score or 0: None, the empty string and
\* 0 are false.
ValueOrEmpty(x) == IF IsNone(x) THEN << >> ELSE x[1]

ScoreOrZero(x) == IF IsNone(x) THEN 0 ELSE x[1]

\* The parameters of update_input: *args, and after it three parameters
\* that a call can give by keyword only.
UpdateInputKeywordOnly == {"current_score", "high_score", "current_value"}

\* The keywords of the call of a callback whose dependencies are given to
\* @callback one by one: every value is passed by position.
CallbackKeywords == {}

\* The body of update_input: triggered is the digit of the button that
\* triggered the call, or None when no button did.
update_input_body(triggered, score, high_score, value) ==
    LET current_value == ValueOrEmpty(value)
        current_score == ScoreOrZero(score)
        new_string == current_value \o <<triggered[1]>>
        raised(exc) == [outcome |-> exc, text_box |-> None, score |-> None,
                        highscore |-> None]
        returned(t, sc, h) == [outcome |-> "returned", text_box |-> Some(t),
                               score |-> Some(sc), highscore |-> h]
    IN  IF IsNone(triggered)
        THEN returned(current_value, current_score, Some(current_score))
        ELSE IF new_string = PiSlice(current_score + 3)
        THEN returned(new_string, current_score + 1, high_score)
        ELSE IF IsNone(high_score) THEN raised("TypeError")
        ELSE returned(<<"3", ".">>, 0,
                      IF current_score > high_score[1]
                      THEN Some(current_score) ELSE high_score)

\* The call of update_input by the callback machinery: the values of the
\* ten Inputs and the three States by position.  The keyword-only
\* parameters get no value, which is a TypeError before the body runs.
update_input(triggered, score, high_score, value) ==
    IF UpdateInputKeywordOnly \ CallbackKeywords # {}
    THEN [outcome |-> "TypeError", text_box |-> None, score |-> None,
          highscore |-> None]
    ELSE update_input_body(triggered, score, high_score, value)

(* ---------------------------- the machine ---------------------------- *)

\* The threads of the server that run callbacks.
Threads == {"t1", "t2"}

\* The properties of the components of the layout when the page is built;
\* children is the children property of the Div error_log.
Layout(children) ==
    [pi |-> [text_box |-> Some(<<"3", ".">>), score |-> Some(0),
             highscore |-> Some(0)],
     varvelger |-> [n_clicks |-> None, loaded |-> FALSE,
                    style |-> Some([display |-> "none"])],
     modals |-> [m \in Modals |->
                    [n_clicks |-> None,
                     loaded |-> PreventInitialCall(m),
                     is_open |-> ModalIsOpen(m)]],
     error_log |-> children]

\* The state after import, before the layout.
InitGlobals ==
    /\ error_list = << >>
    /\ kontroll_dokumentasjon = << >>
    /\ frame \in InputFrames
    /\ last = [op |-> "none"]
    /\ ncalls = 0
    /\ scenario = "start"
    /\ held = None
    /\ threads = [t \in Threads |-> [pc |-> "idle"]]
    /\ runs = << >>
    /\ hb = [components |-> << >>, th_calls |-> << >>]
    /\ alerts = [alert_store |-> <<create_alert("Application started",
                                                "info", FALSE, 0)>>,
                 alert_filter |-> "all",
                 children |-> show_modal_alerts(
                                  <<create_alert("Application started",
                                                 "info", FALSE, 0)>>, "all"),
                 ephemeral_children |-> << >>,
                 clock |-> 1, created |-> 1]

Init == InitGlobals /\ ui = Layout(None)

\* A call of one of the decorated controls ctrls on the caller's frame.
\* runs is the history of the calls that returned: the control's name,
\* the result type and the description its decorator was given, and the
\* number of rows of the frame that pass its filter and meet its
\* condition.
\* When the call returns, the caller keeps the frame returned
\* (data = f(data)) or drops it (f(data)) and goes on with its table as
\* the call left it.
KontrollCallOf(ctrls) ==
    /\ ncalls < MaxCalls
    /\ \E ctrl \in ctrls, mode \in Modes, keep \in BOOLEAN :
          LET w == wrapper(ctrl, mode, frame, error_list,
                           kontroll_dokumentasjon)
              before == [error_list |-> error_list,
                         kontroll_dokumentasjon |-> kontroll_dokumentasjon]
          IN  /\ error_list' = w.error_list
              /\ kontroll_dokumentasjon' = w.kontroll_dokumentasjon
              /\ frame' = IF keep /\ w.outcome = "returned"
                          THEN w.returned
                          ELSE CallerAfter(ctrl, mode, frame)
              /\ last' = IF w.outcome = "returned"
                         THEN [op |-> "kontroll", ctrl |-> ctrl,
                               mode |-> mode, data |-> frame,
                               caller |-> CallerAfter(ctrl, mode, frame),
                               returned |-> w.returned, before |-> before]
                         ELSE [op |-> "kontroll_raised", ctrl |-> ctrl,
                               mode |-> mode, data |-> frame,
                               caller |-> CallerAfter(ctrl, mode, frame),
                               exception |-> w.outcome, before |-> before]
              /\ scenario' = ScenarioStep(scenario, ctrl, frame)
              /\ runs' = IF w.outcome = "returned"
                         THEN Append(runs,
                                     [name |-> ctrl.name,
                                      result_type |-> ctrl.result_type,
                                      error_description |->
                                          ctrl.error_description,
                                      flagged |-> Cardinality(
                                          FlaggedIdx(ctrl, frame))])
                         ELSE runs
    /\ ncalls' = ncalls + 1
    /\ UNCHANGED <<held, hb, alerts,
                   threads, ui>>

KontrollCall == KontrollCallOf(Decorated)

\* The values a caller passes for a required argument of
\* lag_kvalitetsrapport, and the values datetime.now() takes.
Datetimes == {Datetime(0, 0), Datetime(1, 5)}

\* The globals after a build that clears what it has reported.
GlobalsClearedAfterBuild(el, kd) ==
    [error_list |-> << >>, kontroll_dokumentasjon |-> << >>]

\* The globals after lag_kvalitetsrapport or lag_kontroll_dokumentasjon:
\* neither assigns to them or calls a method of them that changes them
\* (the list is iterated, the mapping is copied into a DataFrame).
GlobalsAfterBuild(el, kd) ==
    [error_list |-> el, kontroll_dokumentasjon |-> kd]

\* A call of lag_kvalitetsrapport, ending in any of the results that
\* the values of datetime.now() give.
LagKvalitetsrapport ==
    /\ \E statistics_name \in {None, Some("Demo")},
          data_location \in {None, Some("path/to/data")},
          data_period \in {None, Some("2024K1")},
          also_return_control_docs \in BOOLEAN :
          \E result \in {lag_kvalitetsrapport(statistics_name,
                             data_location, data_period,
                             also_return_control_docs, now, error_list,
                             kontroll_dokumentasjon) : now \in Datetimes} :
              last' = [op |-> "lag_kvalitetsrapport",
                       statistics_name |-> statistics_name,
                       data_location |-> data_location,
                       data_period |-> data_period,
                       also_return_control_docs |-> also_return_control_docs,
                       result |-> result,
                       before |-> [error_list |-> error_list,
                                   kontroll_dokumentasjon |->
                                       kontroll_dokumentasjon]]
    /\ error_list' = GlobalsAfterBuild(error_list,
                                       kontroll_dokumentasjon).error_list
    /\ kontroll_dokumentasjon' =
           GlobalsAfterBuild(error_list,
                             kontroll_dokumentasjon).kontroll_dokumentasjon
    /\ UNCHANGED <<frame, ncalls, scenario, held, hb, alerts,
                   threads, runs, ui>>

\* The reports a caller constructs from the state of the process: the
\* errors are the global list, the result types are those of the list in
\* either order, the documentation is absent or the global mapping.
Reverse(s) == [k \in 1..Len(s) |-> s[Len(s) + 1 - k]]

Reports ==
    {Kvalitetsrapport("Demo", "id", <<"path/to/data">>, "2024K1", dt, res,
                      error_list, doc) :
        dt \in Datetimes,
        res \in {QualityResults(error_list),
                 Reverse(QualityResults(error_list))},
        doc \in {None, Some(kontroll_dokumentasjon)}}

\* Kvalitetsrapport.from_dict(r.to_dict()) for a report r.
RoundTrip ==
    /\ \E r \in Reports :
          last' = [op |-> "roundtrip", report |-> r,
                   dict |-> to_dict(r, kontroll_dokumentasjon),
                   back |-> from_dict(to_dict(r, kontroll_dokumentasjon))]
    /\ UNCHANGED <<error_list, kontroll_dokumentasjon, frame, ncalls,
                   scenario, held, hb, alerts,
                   threads, runs, ui>>

\* A call of lag_kontroll_dokumentasjon on a report the caller constructed.
LagKontrollDokumentasjon ==
    /\ \E r \in Reports :
          last' = [op |-> "lag_kontroll_dokumentasjon", report |-> r,
                   result |-> lag_kontroll_dokumentasjon(r,
                                  kontroll_dokumentasjon),
                   before |-> [error_list |-> error_list,
                               kontroll_dokumentasjon |->
                                   kontroll_dokumentasjon]]
    /\ error_list' = GlobalsAfterBuild(error_list,
                                       kontroll_dokumentasjon).error_list
    /\ kontroll_dokumentasjon' =
           GlobalsAfterBuild(error_list,
                             kontroll_dokumentasjon).kontroll_dokumentasjon
    /\ UNCHANGED <<frame, ncalls, scenario, held, hb, alerts,
                   threads, runs, ui>>

Next == KontrollCall \/ LagKvalitetsrapport \/ RoundTrip

\* Controls and the two builders of reports.
NextBygg == KontrollCall \/ LagKvalitetsrapport \/ LagKontrollDokumentasjon

SpecBygg == Init /\ [][NextBygg]_vars

Spec == Init /\ [][Next]_vars

(* --------------------------- failing calls --------------------------- *)

\* Calls of controls that return and of controls that fail.
KontrollCallFeil == KontrollCallOf(Decorated \cup DecoratedFailing)

NextFeil == KontrollCallFeil

SpecFeil == Init /\ [][NextFeil]_vars

(* ----------------------- the accuracy indicator ----------------------- *)
(* modals/kvalitetsindikatorer.py: KvalitetsindikatorTreffsikkerhet.       *)

\* The sum of the values of a function with a finite domain.
RECURSIVE SumOf(_)
SumOf(f) ==
    IF DOMAIN f = {} THEN 0
    ELSE LET x == CHOOSE y \in DOMAIN f : TRUE
         IN  f[x] + SumOf([y \in (DOMAIN f) \ {x} |-> f[y]])

\* The entries of quality_report["kontrollutslag"] of control i.
UtslagOf(quality_report, i) ==
    {k \in 1..Len(quality_report.kontrollutslag) :
        quality_report.kontrollutslag[k].kontrollnavn = i}

\* celler_markert of control i, as the set that 'x in celler_markert'
\* tests: the (observasjon_id, var) pairs of the control's entries.
CellerMarkert(quality_report, i) ==
    UNION {{<<quality_report.kontrollutslag[k].observasjon_id, var>> :
               var \in Range(quality_report.kontrollutslag[k]
                                 .relevante_variabler[1])} :
           k \in UtslagOf(quality_report, i)}

\* celler_markert_editert: the number of elements of edits that are in
\* celler_markert.
CellerMarkertEditert(quality_report, i, edits) ==
    Cardinality({k \in 1..Len(edits) :
                    edits[k] \in CellerMarkert(quality_report, i)})

\* The exceptions the loop body raises for control i: iterating
\* relevante_variabler that is None, then dividing by a Kontrollutslag of 0.
IterationRaises(quality_report, i) ==
    IF \E k \in UtslagOf(quality_report, i) :
           IsNone(quality_report.kontrollutslag[k].relevante_variabler)
    THEN {"TypeError"}
    ELSE IF quality_report.kontrolldokumentasjon[i].Kontrollutslag = 0
    THEN {"ZeroDivisionError"}
    ELSE {}

\* (a / b) * 100, kept as the fraction (100 a) / b.
Percent(a, b) == [num |-> 100 * a, den |-> b]

\* beregn_treffsikkerhet on the dict of a report and the list of edits.
\* When the body raises for several controls, the exception raised is
\* that of the first of them in the mapping's order, which the model does
\* not keep: exceptions holds the candidates.
beregn_treffsikkerhet(quality_report, edits) ==
    LET names == DOMAIN quality_report.kontrolldokumentasjon
        exc == UNION {IterationRaises(quality_report, i) : i \in names}
        total_kontrollutslag ==
            SumOf([i \in names |->
                quality_report.kontrolldokumentasjon[i].Kontrollutslag])
        total_celler_markert_editert ==
            SumOf([i \in names |->
                CellerMarkertEditert(quality_report, i, edits)])
    IN  IF exc # {}
        THEN [outcome |-> "raised", exceptions |-> exc,
              treffsikkerhet |-> << >>]
        ELSE IF total_kontrollutslag = 0
        THEN [outcome |-> "raised", exceptions |-> {"ZeroDivisionError"},
              treffsikkerhet |-> << >>]
        ELSE [outcome |-> "returned", exceptions |-> {},
              treffsikkerhet |->
                  [i \in names \cup {"total"} |->
                      IF i = "total"
                      THEN Percent(total_celler_markert_editert,
                                   total_kontrollutslag)
                      ELSE Percent(
                          CellerMarkertEditert(quality_report, i, edits),
                          quality_report.kontrolldokumentasjon[i]
                              .Kontrollutslag)]]

\* The (identifier, variable) pairs a caller reports as edited, and the
\* lists of them that get_edits_list_func returns.
EditCells == {<<1, "Alder">>, <<1, "ident">>, <<2, "Alder">>}

EditLists == UNION {[1..n -> EditCells] : n \in 0..MaxEdits}

\* The indicator is computed for the report of the current globals.
BeregnTreffsikkerhet ==
    /\ \E edits \in EditLists :
          LET quality_report ==
                  to_dict(Kvalitetsrapport("Demo", "id", <<"path/to/data">>,
                              "2024K1", Datetime(0, 0),
                              QualityResults(error_list), error_list, None),
                          kontroll_dokumentasjon)
          IN  last' = [op |-> "treffsikkerhet", edits |-> edits,
                       quality_report |-> quality_report,
                       result |-> beregn_treffsikkerhet(quality_report,
                                                        edits)]
    /\ UNCHANGED <<error_list, kontroll_dokumentasjon, frame, ncalls,
                   scenario, held, hb, alerts,
                   threads, runs, ui>>

NextIndikator == KontrollCall \/ BeregnTreffsikkerhet

SpecIndikator == Init /\ [][NextIndikator]_vars

(* ------------------------ the variable selector ----------------------- *)
(* setup/variableselector.py and its predecessor setup/variabelvelger.py.  *)

variable_options ==
    [aar |-> [title |-> "År", id |-> "var-aar", type |-> "number"],
     termin |-> [title |-> "Termin", id |-> "var-termin", type |-> "number"],
     maaned |-> [title |-> "Måned", id |-> "var-maaned", type |-> "number"],
     nace |-> [title |-> "Nace", id |-> "var-nace", type |-> "text"],
     oppgavegiver |-> [title |-> "Oppgavegiver", id |-> "var-oppgavegiver",
                       type |-> "text"],
     foretak |-> [title |-> "Foretak", id |-> "var-foretak", type |-> "text"],
     bedrift |-> [title |-> "Bedrift", id |-> "var-bedrift", type |-> "text"],
     fylke |-> [title |-> "Fylke", id |-> "var-fylke", type |-> "text"],
     skjemaenhet |-> [title |-> "Skjemaenhet", id |-> "var-skjemaenhet",
                      type |-> "text"],
     prodcomkode |-> [title |-> "Prodcomkode", id |-> "var-prodcomkode",
                      type |-> "text"],
     nspekfelt |-> [title |-> "NSPEK-felt", id |-> "var-nspekfelt",
                    type |-> "text"]]

\* dict.get(key) and dict.get(key, default) on a mapping.
Get(d, key, default) == IF key \in DOMAIN d THEN Some(d[key]) ELSE default

\* A default value is a Python value with its type.
IsSupportedValue(value) == value.type \in {"str", "float", "int"}

\* create_variable_card: the column, by the arguments that make it; a value
\* of None becomes the empty string.
create_variable_card(text, component_id, input_type, value) ==
    [text |-> text, component_id |-> component_id, input_type |-> input_type,
     value |-> IF IsNone(value) THEN Some([type |-> "str", v |-> ""])
               ELSE value]

\* The exception the loop body raises for a key, or None. Every entry of
\* variable_options has 'title', 'id' and 'type'.
KeyRaises(key, default_values) ==
    IF IsNone(Get(variable_options, key, None)) THEN Some("KeyError")
    ELSE LET value == Get(default_values, key, None)
         IN  IF ~IsNone(value) /\ ~IsSupportedValue(value[1])
             THEN Some("ValueError")
             ELSE None

\* The card the loop body appends for a key it does not raise for.
CardOf(key, default_values) ==
    LET card_config == variable_options[key]
    IN  create_variable_card(card_config.title, card_config.id,
                             card_config.type,
                             Get(default_values, key, None))

\* create_variable_selector_content: the cards of the keys in order, or the
\* exception of the first key the loop raises for.
create_variable_selector_content(selected_keys, default_values) ==
    LET raising == {k \in 1..Len(selected_keys) :
                       ~IsNone(KeyRaises(selected_keys[k], default_values))}
    IN  IF raising # {}
        THEN LET k == CHOOSE j \in raising : \A l \in raising : j <= l
             IN  [outcome |-> KeyRaises(selected_keys[k], default_values)[1],
                  key |-> Some(selected_keys[k]), cards_list |-> << >>]
        ELSE [outcome |-> "returned", key |-> None,
              cards_list |-> [k \in 1..Len(selected_keys) |->
                                 CardOf(selected_keys[k], default_values)]]

\* skjermcard of variabelvelger.py builds the same column as
\* create_variable_card. generate_skjermcards looks nothing up strictly: a
\* key that is not in variable_options gets a card whose title, id and type
\* are None.
generate_skjermcards(selected_keys, default_values) ==
    [k \in 1..Len(selected_keys) |->
        LET key == selected_keys[k]
            card_config == Get(variable_options, key, None)
        IN  IF IsNone(card_config)
            THEN create_variable_card(None, None, None,
                                      Get(default_values, key, None))
            ELSE create_variable_card(Some(card_config[1].title),
                                      Some(card_config[1].id),
                                      Some(card_config[1].type),
                                      Get(default_values, key, None))]

\* The keys a caller selects: two that are in variable_options and one
\* that is not.
SelectableKeys == {"aar", "nace", "orgnr"}

KeyLists == UNION {[1..n -> SelectableKeys] : n \in 0..MaxKeys}

\* The default values a caller gives: none, a supported value for 'aar',
\* or a list, which is not supported.
DefaultValues ==
    {<< >>,
     [aar |-> [type |-> "int", v |-> 2024]],
     [nace |-> [type |-> "list", v |-> 0]]}

CreateVariableSelectorContent ==
    /\ \E selected_keys \in KeyLists, default_values \in DefaultValues :
          last' = [op |-> "create_variable_selector_content",
                   selected_keys |-> selected_keys,
                   default_values |-> default_values,
                   result |-> create_variable_selector_content(
                                  selected_keys, default_values)]
    /\ UNCHANGED <<error_list, kontroll_dokumentasjon, frame, ncalls,
                   scenario, held, hb, alerts,
                   threads, runs, ui>>

GenerateSkjermcards ==
    /\ \E selected_keys \in KeyLists, default_values \in DefaultValues :
          last' = [op |-> "generate_skjermcards",
                   selected_keys |-> selected_keys,
                   default_values |-> default_values,
                   result |-> generate_skjermcards(selected_keys,
                                                   default_values)]
    /\ UNCHANGED <<error_list, kontroll_dokumentasjon, frame, ncalls,
                   scenario, held, hb, alerts,
                   threads, runs, ui>>

NextVariabler == CreateVariableSelectorContent \/ GenerateSkjermcards

SpecVariabler == Init /\ [][NextVariabler]_vars

(* --------------------------- HbMethodAIO ------------------------------ *)
(* hb_method_aio.py.  hb.components are the components constructed, in     *)
(* order, each with the arguments it was constructed with and the data of  *)
(* its dcc.Store; hb.th_calls are the calls of the R function ThError made, *)
(* each with what it returned.  ThError and Hb are functions of the R      *)
(* package Kostra: which rows ThError marks as outliers is a choice, and   *)
(* of Hb only the call is kept.                                            *)

\* The caller's DataFrame of n rows, in the columns of the test's data.
DF_IN(n) ==
    [k \in 1..n |-> [norsk_identifikator |-> k, beloep |-> 40 + k,
                     beloep_1 |-> 43]]

\* ThError's result: a frame with a row of id, x1, x2 and outlier for each
\* row of data, outlier[k] being the mark it gives row k, under the index
\* 0, 1, ...
ThError(data, id, x1, x2, outlier) ==
    [index |-> [k \in 1..Len(data) |-> k - 1],
     rows |-> [k \in 1..Len(data) |->
                 [id |-> data[k][id], x1 |-> data[k][x1], x2 |-> data[k][x2],
                  outlier |-> outlier[k]]]]

\* run_th_error without its selection of the rows.
run_th_error_unfiltered(data, id_field_name, x_1_name, x_2_name, outlier) ==
    ThError(data, id_field_name, x_1_name, x_2_name, outlier)

\* run_th_error: the rows of ThError's result with outlier == 0, under the
\* index they had.
run_th_error(data, id_field_name, x_1_name, x_2_name, outlier) ==
    LET th_error_result == ThError(data, id_field_name, x_1_name, x_2_name,
                                   outlier)
        idx == SelectIdx([k \in 1..Len(data) |->
                             th_error_result.rows[k].outlier = 0], 1)
    IN  [index |-> [k \in 1..Len(idx) |-> th_error_result.index[idx[k]]],
         rows |-> [k \in 1..Len(idx) |-> th_error_result.rows[idx[k]]]]

\* DataFrame.to_dict("records") is the list of the rows, without the
\* index; pd.DataFrame of a list of records has the index 0, 1, ... and
\* the records' keys as columns, and no column when the list is empty.
to_dict_records(df) == df.rows

DataFrameOfRecords(records) ==
    [index |-> [k \in 1..Len(records) |-> k - 1],
     columns |-> IF records = << >> THEN {} ELSE DOMAIN records[1],
     rows |-> records]

\* int() and float() of the values of the dbc.Select components.
IntOf(s) ==
    CASE s = "5" -> 5
      [] s = "100" -> 100
      [] s = "1000" -> 1000
      [] s = "100000" -> 100000

FloatOf(s) == [float |-> s]

AioIds == {"aio_1", "aio_2"}

AioIdsOf(components) == {components[k].aio_id : k \in 1..Len(components)}

\* HbMethodAIO.__init__: one call of run_th_error, whose result is put
\* in the component's store together with field_id.
HbMethodAIOInit ==
    /\ \E aio_id \in AioIds \ AioIdsOf(hb.components), n \in 0..MaxRows :
         \E outlier \in [1..n -> {0, 1}] :
            LET data == DF_IN(n)
                id_field_name == "norsk_identifikator"
                x_1_name == "beloep"
                x_2_name == "beloep_1"
                field_id == 3000
                th_result == run_th_error(data, id_field_name, x_1_name,
                                          x_2_name, outlier)
                data_dict == [df |-> to_dict_records(th_result),
                              field_id |-> field_id]
            IN  /\ hb' = [components |->
                             Append(hb.components,
                                 [aio_id |-> aio_id,
                                  args |-> [data |-> data,
                                            field_id |-> field_id,
                                            id_field_name |-> id_field_name,
                                            x_1_name |-> x_1_name,
                                            x_2_name |-> x_2_name],
                                  data_store |-> data_dict]),
                          th_calls |->
                             Append(hb.th_calls,
                                 [data |-> data, id |-> id_field_name,
                                  x1 |-> x_1_name, x2 |-> x_2_name,
                                  result |-> ThError(data, id_field_name,
                                                     x_1_name, x_2_name,
                                                     outlier)])]
                /\ last' = [op |-> "HbMethodAIO", aio_id |-> aio_id]
    /\ UNCHANGED <<error_list, kontroll_dokumentasjon, frame, ncalls,
                   scenario, held, alerts, threads, runs, ui>>

\* The call of Hb that run_hb_method makes, and the query on its result.
run_hb_method(data, field_id, p_c, p_u, p_a, filter_op, filter_value) ==
    [hb_call |-> [data |-> data, id |-> "id", x1 |-> "x1", x2 |-> "x2",
                  pC |-> p_c, pU |-> p_u, pA |-> p_a],
     field_id |-> field_id,
     df_query |-> <<"outlier == 1 & maxX", filter_op, filter_value>>]

\* update_figures_cb: a value of one of the parameter inputs of component
\* aio_id changed; data is the State of the store of the same aio_id.
update_figures_cb(p_c, p_u, p_a, filter_operator, filter_value, data) ==
    run_hb_method(DataFrameOfRecords(data.df), data.field_id, IntOf(p_c),
                  FloatOf(p_u), FloatOf(p_a), filter_operator,
                  IntOf(filter_value))

UpdateFiguresCb ==
    /\ \E k \in 1..Len(hb.components), p_c \in {"5", "100"},
          filter_operator \in {">", "<"}, filter_value \in {"1000", "100000"} :
          last' = [op |-> "update_figures_cb",
                   aio_id |-> hb.components[k].aio_id,
                   figure |-> update_figures_cb(p_c, "0.5", "0.05",
                                  filter_operator, filter_value,
                                  hb.components[k].data_store)]
    /\ UNCHANGED <<error_list, kontroll_dokumentasjon, frame, ncalls,
                   scenario, held, hb, alerts,
                   threads, runs, ui>>

InitHb == Init /\ frame = Frame(<< >>, FALSE, << >>)

NextHb == HbMethodAIOInit \/ UpdateFiguresCb

SpecHb == InitHb /\ [][NextHb]_vars

(* ------------------------ interleaved wrappers ------------------------ *)
(* framework.py:108-159 run by the threads of the server.  The wrapper    *)
(* takes no lock: each of its three writes to the globals (lines 140,     *)
(* 143-151 and 153-155) is a step, and steps of other threads and reads   *)
(* of the globals run in between.  threads[t] is the position of thread   *)
(* t in the wrapper and the locals it has computed.                       *)

\* The globals after the wrapper's first write, were it the write of the
\* documentation entry.
WriteFirstDocumentation(el, kd, name, new_error_details, entry) ==
    [error_list |-> el,
     kontroll_dokumentasjon |-> DictSet(kd, name, entry)]

\* The globals after the wrapper's first write, line 140.
WriteFirst(el, kd, name, new_error_details, entry) ==
    [error_list |-> Extend(el, new_error_details),
     kontroll_dokumentasjon |-> kd]

\* Lines 109-137: the locals of a call of ctrl on the caller's frame.
WrapperStart(t) ==
    /\ threads[t].pc = "idle"
    /\ ncalls < MaxCalls
    /\ \E ctrl \in Decorated :
          LET w == wrapper(ctrl, "copy", frame, << >>, << >>)
          IN  threads' = [threads EXCEPT ![t] =
                  [pc |-> "computed", ctrl |-> ctrl,
                   new_error_details |-> w.error_list,
                   entry |-> w.kontroll_dokumentasjon[ctrl.name]]]
    /\ ncalls' = ncalls + 1
    /\ UNCHANGED <<error_list, kontroll_dokumentasjon, frame, last, scenario,
                   held, hb, alerts, runs, ui>>

\* Line 140: error_list.extend(new_error_details).
WrapperExtend(t) ==
    /\ threads[t].pc = "computed"
    /\ LET g == WriteFirst(error_list, kontroll_dokumentasjon,
                           threads[t].ctrl.name,
                           threads[t].new_error_details,
                           [threads[t].entry EXCEPT
                               !.Relevante_variabler = None])
       IN  /\ error_list' = g.error_list
           /\ kontroll_dokumentasjon' = g.kontroll_dokumentasjon
    /\ threads' = [threads EXCEPT ![t].pc = "extended"]
    /\ UNCHANGED <<frame, last, ncalls, scenario, held, hb, alerts, runs, ui>>

\* Lines 143-151: the entry, without 'Relevante variabler'.
WrapperDocument(t) ==
    /\ threads[t].pc = "extended"
    /\ kontroll_dokumentasjon' =
           DictSet(kontroll_dokumentasjon, threads[t].ctrl.name,
                   [threads[t].entry EXCEPT !.Relevante_variabler = None])
    /\ threads' = [threads EXCEPT ![t].pc = "documented"]
    /\ UNCHANGED <<error_list, frame, last, ncalls, scenario, held, hb,
                   alerts, runs, ui>>

\* Lines 152-159: 'Relevante variabler' is set in the entry the mapping
\* has now, and the wrapper returns.  The run joins the history of the
\* calls that returned, with the number of rows it flagged and whether
\* another thread was inside the wrapper when it returned.
WrapperReturn(t) ==
    /\ threads[t].pc = "documented"
    /\ kontroll_dokumentasjon' =
           IF ~IsNone(threads[t].entry.Relevante_variabler)
           THEN [kontroll_dokumentasjon EXCEPT
                    ![threads[t].ctrl.name].Relevante_variabler =
                        threads[t].entry.Relevante_variabler]
           ELSE kontroll_dokumentasjon
    /\ threads' = [threads EXCEPT ![t] = [pc |-> "idle"]]
    /\ runs' = Append(runs,
                      [name |-> threads[t].ctrl.name,
                       flagged |-> Cardinality(
                                       FlaggedIdx(threads[t].ctrl, frame)),
                       interleaved |->
                           \E u \in Threads \ {t} :
                               threads[u].pc # "idle"])
    /\ UNCHANGED <<error_list, frame, last, ncalls, scenario, held, hb,
                   alerts, ui>>

\* Another callback reads the globals: the dict of a report of them.
Observe ==
    /\ last' = [op |-> "to_dict",
                dict |-> to_dict(Kvalitetsrapport("Demo", "id",
                                     <<"path/to/data">>, "2024K1",
                                     Datetime(0, 0),
                                     QualityResults(error_list), error_list,
                                     None),
                                 kontroll_dokumentasjon)]
    /\ UNCHANGED <<error_list, kontroll_dokumentasjon, frame, ncalls,
                   scenario, held, hb, alerts, threads, runs, ui>>

Start == \E t \in Threads : WrapperStart(t)

ExtendStep == \E t \in Threads : WrapperExtend(t)

DocumentStep == \E t \in Threads : WrapperDocument(t)

ReturnStep == \E t \in Threads : WrapperReturn(t)

NextThreads == Start \/ ExtendStep \/ DocumentStep \/ ReturnStep \/ Observe

SpecThreads == Init /\ [][NextThreads]_vars

(* ----------------------- alerts in the modal -------------------------- *)
(* A write to alert_store or alert_filter triggers show_modal_alerts,     *)
(* whose Inputs they are: each action ends with the children it returns.  *)

AlertColors == {"info", "warning", "danger"}

\* A callback of the application appends an alert to the store.
AddAlert ==
    /\ alerts.created < MaxAlerts
    /\ \E color \in AlertColors, ephemeral \in BOOLEAN :
          LET store == Append(alerts.alert_store,
                              create_alert("melding", color, ephemeral,
                                           alerts.clock))
          IN  alerts' = [alert_store |-> store,
                         alert_filter |-> alerts.alert_filter,
                         children |-> show_modal_alerts(store,
                                          alerts.alert_filter),
                         ephemeral_children |-> alerts.ephemeral_children,
                         clock |-> alerts.clock + 1,
                         created |-> alerts.created + 1]
    /\ last' = [op |-> "create_alert"]
    /\ UNCHANGED <<error_list, kontroll_dokumentasjon, frame, ncalls,
                   scenario, held, hb, threads, runs, ui>>

\* A click on one of the four filter buttons.
SetFilter ==
    /\ \E triggered_id \in FilterButtons :
          alerts' = [alerts EXCEPT
                        !.alert_filter = set_filter(triggered_id),
                        !.children = show_modal_alerts(alerts.alert_store,
                                         set_filter(triggered_id))]
    /\ last' = [op |-> "set_filter"]
    /\ UNCHANGED <<error_list, kontroll_dokumentasjon, frame, ncalls,
                   scenario, held, hb, threads, runs, ui>>

\* The user closes the displayed alert at position i: its is_open becomes
\* false, which triggers remove_dismissed_alerts.
Dismiss ==
    /\ \E i \in 1..Len(alerts.children) :
          LET is_open_list == [k \in 1..Len(alerts.children) |->
                                  IF k = i THEN FALSE
                                  ELSE alerts.children[k].is_open]
              store == remove_dismissed_alerts(is_open_list,
                                               alerts.alert_store)
          IN  /\ alerts' = [alerts EXCEPT
                               !.alert_store = store,
                               !.children = show_modal_alerts(store,
                                                alerts.alert_filter)]
              /\ last' = [op |-> "remove_dismissed_alerts",
                          closed |-> FilteredAlerts(alerts.alert_store,
                                         alerts.alert_filter)[i],
                          current_filter |-> alerts.alert_filter,
                          before |-> alerts.alert_store]
    /\ UNCHANGED <<error_list, kontroll_dokumentasjon, frame, ncalls,
                   scenario, held, hb, threads, runs, ui>>

InitAlerts == Init /\ frame = Frame(<< >>, FALSE, << >>)

NextAlerts == AddAlert \/ SetFilter \/ Dismiss

SpecAlerts == InitAlerts /\ [][NextAlerts]_vars

\* alert_ephemeral_interval ticks, a second after the time it is now:
\* display_ephemeral_alerts returns the children of
\* alert_ephemeral_container.
IntervalTick ==
    /\ alerts.clock < MaxTime
    /\ alerts' = [alerts EXCEPT
                     !.clock = alerts.clock + 1,
                     !.ephemeral_children =
                         display_ephemeral_alerts(alerts.alert_store,
                                                  alerts.clock + 1)]
    /\ last' = [op |-> "display_ephemeral_alerts",
                before |-> alerts.alert_store]
    /\ UNCHANGED <<error_list, kontroll_dokumentasjon, frame, ncalls,
                   scenario, held, hb, threads, runs, ui>>

NextEphemeral == AddAlert \/ IntervalTick \/ Dismiss

SpecEphemeral == InitAlerts /\ [][NextEphemeral]_vars

(* ---------------------- playing the Pi memorizer --------------------- *)

PiDigits == {"0", "1", "2", "3", "4", "5", "6", "7", "8", "9"}

\* The user types into the text box or into one of the number inputs, or
\* empties it.
PiUserEdit ==
    /\ \E f \in {"text_box", "score", "highscore"} :
          \E v \in IF f = "text_box"
                   THEN {Some(<< >>)} \cup
                        {Some(PiSlice(n)) : n \in 2..(MaxScore + 2)}
                   ELSE {None} \cup {Some(n) : n \in 0..MaxScore} :
              ui' = [ui EXCEPT !.pi[f] = v]
    /\ last' = [op |-> "pi_user_edit"]
    /\ UNCHANGED <<error_list, kontroll_dokumentasjon, frame, ncalls,
                   scenario, held, hb, alerts, threads, runs>>

\* A click on the button of digit d.  The outputs are set when the
\* callback returns and stay as they are when it raises.
PiPressDigit ==
    /\ \E d \in PiDigits :
          LET r == update_input(Some(d), ui.pi.score, ui.pi.highscore,
                                ui.pi.text_box)
          IN  /\ ui' = IF r.outcome = "returned"
                       THEN [ui EXCEPT !.pi = [text_box |-> r.text_box,
                                               score |-> r.score,
                                               highscore |-> r.highscore]]
                       ELSE ui
              /\ last' = [op |-> "update_input", digit |-> d,
                          before |-> ui.pi, outcome |-> r.outcome]
    /\ UNCHANGED <<error_list, kontroll_dokumentasjon, frame, ncalls,
                   scenario, held, hb, alerts, threads, runs>>

InitUi == Init /\ frame = Frame(<< >>, FALSE, << >>)

NextPi == PiUserEdit \/ PiPressDigit

SpecPi == InitUi /\ [][NextPi]_vars

(* ------------------------ sidebar buttons ----------------------------- *)
(* The callback of a sidebar button is called once when the page loads,   *)
(* with n_clicks None (unless prevent_initial_call), and then at every    *)
(* click; what it returns becomes the property of its Output.            *)

VarvelgerLoad ==
    /\ ~ui.varvelger.loaded
    /\ ui' = [ui EXCEPT
                 !.varvelger.loaded = TRUE,
                 !.varvelger.style =
                     toggle_varvelger(ui.varvelger.n_clicks,
                                      ui.varvelger.style)]
    /\ last' = [op |-> "toggle_varvelger", n_clicks |-> ui.varvelger.n_clicks,
                before |-> ui.varvelger.style]
    /\ UNCHANGED <<error_list, kontroll_dokumentasjon, frame, ncalls,
                   scenario, held, hb, alerts, threads, runs>>

VarvelgerClick ==
    /\ ui.varvelger.loaded
    /\ ScoreOrZero(ui.varvelger.n_clicks) < MaxClicks
    /\ LET n_clicks == Some(ScoreOrZero(ui.varvelger.n_clicks) + 1)
       IN  /\ ui' = [ui EXCEPT
                        !.varvelger.n_clicks = n_clicks,
                        !.varvelger.style =
                            toggle_varvelger(n_clicks, ui.varvelger.style)]
           /\ last' = [op |-> "toggle_varvelger", n_clicks |-> n_clicks,
                       before |-> ui.varvelger.style]
    /\ UNCHANGED <<error_list, kontroll_dokumentasjon, frame, ncalls,
                   scenario, held, hb, alerts, threads, runs>>

ModalLoad ==
    /\ \E m \in Modals :
          /\ ~ui.modals[m].loaded
          /\ ui' = [ui EXCEPT
                       !.modals[m].loaded = TRUE,
                       !.modals[m].is_open =
                           modal_toggle(ui.modals[m].n_clicks,
                                        ui.modals[m].is_open)]
          /\ last' = [op |-> "modal_toggle", modal |-> m,
                      n |-> ui.modals[m].n_clicks,
                      before |-> ui.modals[m].is_open]
    /\ UNCHANGED <<error_list, kontroll_dokumentasjon, frame, ncalls,
                   scenario, held, hb, alerts, threads, runs>>

ModalClick ==
    /\ \E m \in Modals :
          /\ ui.modals[m].loaded
          /\ ScoreOrZero(ui.modals[m].n_clicks) < MaxClicks
          /\ LET n == Some(ScoreOrZero(ui.modals[m].n_clicks) + 1)
             IN  /\ ui' = [ui EXCEPT
                              !.modals[m].n_clicks = n,
                              !.modals[m].is_open =
                                  modal_toggle(n, ui.modals[m].is_open)]
                 /\ last' = [op |-> "modal_toggle", modal |-> m, n |-> n,
                             before |-> ui.modals[m].is_open]
    /\ UNCHANGED <<error_list, kontroll_dokumentasjon, frame, ncalls,
                   scenario, held, hb, alerts, threads, runs>>

NextSidebar == VarvelgerLoad \/ VarvelgerClick \/ ModalLoad \/ ModalClick

SpecSidebar == InitUi /\ [][NextSidebar]_vars

(* ------------------------ the editing table --------------------------- *)
(* EditingTable's update_table callback: a cell edit of the AG Grid is    *)
(* written to the database by the update function the application gave,   *)
(* which returns or raises, and an alert is put in front of the children  *)
(* of error_log.                                                          *)

\* The cellValueChanged property: None, or a list with one edit.
CellEdits ==
    {None} \cup {Some([colId |-> c, oldValue |-> 0, value |-> v]) :
                    c \in {"a", "b"}, v \in {1, 2}}

\* dbc.Alert(message, color=..., dismissable=True); the message names the
\* variable, the old and the new value and is one of two sentences.
Alert(color, sentence, edit) ==
    [color |-> color,
     message |-> <<sentence, edit.colId, edit.oldValue, edit.value>>]

\* [new_alert, *error_log]: unpacking None raises TypeError.
Prepend(new_alert, error_log) ==
    IF IsNone(error_log)
    THEN [kind |-> "TypeError"]
    ELSE [kind |-> "return", value |-> <<new_alert>> \o error_log[1]]

\* The callback: PreventUpdate without an edit; in the try the update
\* function and the info alert, in the except branch (reached from any
\* exception of the try, the TypeError of the unpacking included) the
\* danger alert.
update_table(edited, error_log, update_raises) ==
    IF IsNone(edited)
    THEN [kind |-> "PreventUpdate"]
    ELSE LET tried ==
                 IF update_raises
                 THEN [kind |-> "Exception"]
                 ELSE Prepend(Alert("info", "updatert", edited[1]),
                              error_log)
         IN  IF tried.kind = "return"
             THEN tried
             ELSE Prepend(Alert("danger", "feilet", edited[1]), error_log)

\* A cell edit, or an invocation without one.
CellValueChanged ==
    /\ \E edited \in CellEdits, update_raises \in BOOLEAN :
          LET out == update_table(edited, ui.error_log, update_raises)
          IN  /\ out.kind = "return" => Len(out.value) <= MaxLog
              /\ ui' = [ui EXCEPT
                           !.error_log = IF out.kind = "return"
                                         THEN Some(out.value)
                                         ELSE ui.error_log]
              /\ last' = [op |-> "update_table", edited |-> edited,
                          update_raises |-> update_raises,
                          before |-> ui.error_log, out |-> out]
    /\ UNCHANGED <<error_list, kontroll_dokumentasjon, frame, ncalls,
                   scenario, held, hb, alerts, threads, runs>>

\* The children of error_log at the start: the Div of the AlertHandler
\* layout has none (None); a layout of the application may give it an
\* empty list.
InitTabell ==
    /\ InitGlobals
    /\ frame = Frame(<< >>, FALSE, << >>)
    /\ \E children \in {None, Some(<< >>)} :
          ui = Layout(children)

NextTabell == CellValueChanged

SpecTabell == InitTabell /\ [][NextTabell]_vars

(* -------------------------- a report kept ---------------------------- *)

\* A report object the caller keeps.  Its quality_control_errors is the
\* list object it was constructed with: errors_ref says whether that is
\* the global error_list, which later calls extend in place, or a list of
\* the report's own.
HeldErrors(h) ==
    IF h.errors_ref = "error_list" THEN error_list
    ELSE h.report.quality_control_errors

\* The report object as it reads now.
HeldReport(h) ==
    [h.report EXCEPT !.quality_control_errors = HeldErrors(h)]

\* The caller builds a report as lag_kvalitetsrapport does, less the
\* keyword 'corrections' that Kvalitetsrapport.__init__ does not take:
\* quality_control_errors is error_list itself and no documentation is
\* given.
ByggRapport ==
    /\ IsNone(held)
    /\ \E now \in Datetimes :
          held' = Some([report |->
                            Kvalitetsrapport("Demo",
                                "A reference (or link/uri) to the quality control description",
                                <<"path/to/data">>, "2024K1", now,
                                QualityResults(error_list), error_list, None),
                        errors_ref |-> "error_list"])
    /\ UNCHANGED <<error_list, kontroll_dokumentasjon, frame, last, ncalls,
                   scenario, hb, alerts,
                   threads, runs, ui>>

\* Controls run before and after a report is built.
NextRapport == KontrollCall \/ ByggRapport

SpecRapport == Init /\ [][NextRapport]_vars

(* ------------------------------ claims ------------------------------- *)

\* The reports the last call appended.
Appended ==
    SubSeq(error_list, Len(last.before.error_list) + 1, Len(error_list))

\* C1: the reports a control call appends to error_list are one per flagged
\* row and none for any other row; each carries the row's id-column value
\* as context_id, the function's name as sub_control_id, and the
\* decorator's result type, description and important variables.
C1_OneReportPerFlaggedRow ==
    last.op = "kontroll" =>
        LET c == last.ctrl
            new == Appended
        IN  /\ SubSeq(error_list, 1, Len(last.before.error_list))
                 = last.before.error_list
            /\ Len(new) = Cardinality(FlaggedIdx(c, last.data))
            /\ \A k \in 1..Len(last.data.rows) :
                  Cardinality({j \in 1..Len(new) :
                      new[j].context_id = last.data.rows[k][c.id_column]})
                  = IF k \in FlaggedIdx(c, last.data) THEN 1 ELSE 0
            /\ \A j \in 1..Len(new) :
                  /\ new[j].sub_control_id = c.name
                  /\ new[j].result_type = c.result_type
                  /\ new[j].error_description = c.error_description
                  /\ new[j].important_variables = c.important_variables

\* A call that flagged two rows and left another row unflagged.
C1_Witness ==
    /\ last.op = "kontroll"
    /\ Len(Appended) = 2
    /\ Len(last.data.rows) > 2

C3_StaleFlagColumnIgnored ==
    (last.op = "kontroll" /\ last.data.has) =>
        LET clean == wrapper(last.ctrl, last.mode,
                             Frame(last.data.rows, FALSE, << >>),
                             last.before.error_list,
                             last.before.kontroll_dokumentasjon)
        IN  /\ error_list = clean.error_list
            /\ kontroll_dokumentasjon = clean.kontroll_dokumentasjon
            /\ \A j \in 1..Len(Appended) :
                  \E k \in FlaggedIdx(last.ctrl, last.data) :
                      Appended[j].context_id
                          = last.data.rows[k][last.ctrl.id_column]

\* A call, of a check that does not reset the column itself, on data whose
\* stale column flags a row that the check does not flag, while the check
\* flags another.
C3_Witness ==
    /\ last.op = "kontroll"
    /\ last.data.has
    /\ ~Resets(last.ctrl.check)
    /\ Len(Appended) > 0
    /\ \E k \in 1..Len(last.data.rows) :
          last.data.utslag[k] /\ k \notin FlaggedIdx(last.ctrl, last.data)

\* The fields of a report other than its documentation.
SameButDocumentation(a, b) ==
    /\ a.statistics_name = b.statistics_name
    /\ a.quality_control_id = b.quality_control_id
    /\ a.data_location = b.data_location
    /\ a.data_period = b.data_period
    /\ a.quality_control_datetime = b.quality_control_datetime
    /\ a.quality_control_results = b.quality_control_results
    /\ Len(a.quality_control_errors) = Len(b.quality_control_errors)
    /\ \A k \in 1..Len(a.quality_control_errors) :
          a.quality_control_errors[k] = b.quality_control_errors[k]

\* C4 as stated: from_dict(r.to_dict()) equals r field by field, also for
\* a report constructed without a documentation mapping.
C4_RoundTripEqual ==
    last.op = "roundtrip" =>
        /\ SameButDocumentation(last.back, last.report)
        /\ last.back.quality_control_documentation
              = last.report.quality_control_documentation

\* C4 as amended: from_dict(r.to_dict()) equals r in every field but the
\* documentation; its documentation is r's when r has one, and the global
\* kontroll_dokumentasjon as it is at the call of to_dict when r has none.
C4_RoundTripButDocumentation ==
    last.op = "roundtrip" =>
        /\ SameButDocumentation(last.back, last.report)
        /\ last.back.quality_control_documentation
              = IF IsNone(last.report.quality_control_documentation)
                THEN Some(kontroll_dokumentasjon)
                ELSE last.report.quality_control_documentation

\* A report without documentation, with errors of two result types listed
\* against the enum's order and a timestamp with microseconds, taken
\* through to_dict and from_dict.
C4_Witness ==
    /\ last.op = "roundtrip"
    /\ IsNone(last.report.quality_control_documentation)
    /\ Len(last.report.quality_control_errors) > 1
    /\ Len(last.report.quality_control_results) = 2
    /\ last.report.quality_control_results[1]
          > last.report.quality_control_results[2]
    /\ last.report.quality_control_datetime.mikrosek # 0

\* C5: for non-null arguments lag_kvalitetsrapport returns a report whose
\* data_location is the one-element list of the given location, whose
\* result types are the distinct result types of error_list, and whose
\* errors are the whole of error_list.
C5_ReportOfErrorList ==
    ( /\ last.op = "lag_kvalitetsrapport"
      /\ ~IsNone(last.statistics_name)
      /\ ~IsNone(last.data_location)
      /\ ~IsNone(last.data_period) ) =>
        /\ last.result.outcome = "returned"
        /\ ~IsNone(last.result.report)
        /\ last.result.report[1].data_location = <<last.data_location[1]>>
        /\ Range(last.result.report[1].quality_control_results)
              = {error_list[k].result_type : k \in 1..Len(error_list)}
        /\ Len(last.result.report[1].quality_control_results)
              = Cardinality(Range(last.result.report[1].quality_control_results))
        /\ last.result.report[1].quality_control_errors = error_list

\* C6: lag_kvalitetsrapport with statistics_name, data_location or
\* data_period None raises an assertion failure, and leaves error_list and
\* kontroll_dokumentasjon as they were.
C6_MissingArgumentRaises ==
    ( /\ last.op = "lag_kvalitetsrapport"
      /\ \/ IsNone(last.statistics_name)
         \/ IsNone(last.data_location)
         \/ IsNone(last.data_period) ) =>
        /\ last.result.outcome = "AssertionError"
        /\ IsNone(last.result.report)
        /\ error_list = last.before.error_list
        /\ kontroll_dokumentasjon = last.before.kontroll_dokumentasjon

\* A call with only data_location None, after controls have filled the
\* globals.
C6_Witness ==
    /\ last.op = "lag_kvalitetsrapport"
    /\ IsNone(last.data_location)
    /\ ~IsNone(last.statistics_name)
    /\ ~IsNone(last.data_period)
    /\ Len(error_list) > 0
    /\ DOMAIN kontroll_dokumentasjon # {}

C8_ReturnsInputRows ==
    last.op = "kontroll" =>
        /\ ~last.returned.has
        /\ last.returned.rows = last.data.rows

\* C8 as amended: the wrapper returns, without an 'utslag' column, exactly
\* the rows of the caller's input that the configured filter keeps, in
\* order: all of them when no filter is configured.
C8_ReturnsCheckedRows ==
    last.op = "kontroll" =>
        LET idx == SelectIdx([k \in 1..Len(last.data.rows) |->
                                 k \in CheckedIdx(last.ctrl, last.data)], 1)
        IN  /\ ~last.returned.has
            /\ last.returned.utslag = << >>
            /\ last.returned.rows
                  = [k \in 1..Len(idx) |-> last.data.rows[idx[k]]]
            /\ IsNone(last.ctrl.filter_for_relevant_data)
                  => last.returned.rows = last.data.rows

\* A call with a filter that drops a row, on data with a stale column, of
\* a check that returns a new frame and flags a row.
C8_Witness ==
    /\ last.op = "kontroll"
    /\ last.mode = "copy"
    /\ last.data.has
    /\ Len(Appended) > 0
    /\ Len(last.returned.rows) < Len(last.data.rows)

\* C9: in the entry a control run writes, 'Enheter i datasettet' is the
\* row count before the filter and 'Enheter kontrollert' the row count
\* after it; without a filter the two are equal.
C9_CountsBeforeAndAfterFilter ==
    last.op = "kontroll" =>
        LET e == kontroll_dokumentasjon[last.ctrl.name]
        IN  /\ e.Enheter_i_datasettet = Len(last.data.rows)
            /\ e.Enheter_kontrollert
                  = Cardinality(CheckedIdx(last.ctrl, last.data))
            /\ IsNone(last.ctrl.filter_for_relevant_data)
                  => e.Enheter_i_datasettet = e.Enheter_kontrollert

\* A run whose filter dropped a row.
C9_Witness ==
    /\ last.op = "kontroll"
    /\ ~IsNone(last.ctrl.filter_for_relevant_data)
    /\ kontroll_dokumentasjon[last.ctrl.name].Enheter_kontrollert
          < kontroll_dokumentasjon[last.ctrl.name].Enheter_i_datasettet

\* C10: a control run replaces the entry of its function's name by the
\* run's result type, description, docstring and three counts, with
\* 'Relevante variabler' only when the run's decorator has important
\* variables, and leaves every other entry as it was.
C10_EntryReplaced ==
    last.op = "kontroll" =>
        LET c == last.ctrl
            e == kontroll_dokumentasjon[c.name]
            old == last.before.kontroll_dokumentasjon
        IN  /\ DOMAIN kontroll_dokumentasjon = (DOMAIN old) \cup {c.name}
            /\ \A n \in (DOMAIN old) \ {c.name} :
                  kontroll_dokumentasjon[n] = old[n]
            /\ e.kontrolltype = KontrolltypeName(c.result_type)
            /\ e.feilbeskrivelse = c.error_description
            /\ e.docstring = c.doc
            /\ e.Enheter_i_datasettet = Len(last.data.rows)
            /\ e.Enheter_kontrollert = Cardinality(CheckedIdx(c, last.data))
            /\ e.Kontrollutslag = Cardinality(FlaggedIdx(c, last.data))
            /\ e.Relevante_variabler = c.important_variables

\* A run without important variables over an entry of the same name that
\* has 'Relevante variabler' and another result type.
C10_Witness ==
    /\ last.op = "kontroll"
    /\ IsNone(last.ctrl.important_variables)
    /\ last.ctrl.name \in DOMAIN last.before.kontroll_dokumentasjon
    /\ ~IsNone(last.before.kontroll_dokumentasjon[last.ctrl.name]
                  .Relevante_variabler)
    /\ last.before.kontroll_dokumentasjon[last.ctrl.name].kontrolltype
          # KontrolltypeName(last.ctrl.result_type)

\* s is a prefix of t.
IsPrefix(s, t) == Len(s) <= Len(t) /\ SubSeq(t, 1, Len(s)) = s

\* C11: over every step (a control call, a report build, a round trip)
\* error_list before the step is a prefix of error_list after it, and
\* every key of kontroll_dokumentasjon stays a key.
C11_AppendOnly ==
    [][/\ IsPrefix(error_list, error_list')
       /\ DOMAIN kontroll_dokumentasjon \subseteq DOMAIN kontroll_dokumentasjon'
      ]_vars

\* A second control call that appended reports after those of the first
\* and wrote a second key.
C11_Witness ==
    /\ last.op = "kontroll"
    /\ Len(last.before.error_list) > 0
    /\ Len(error_list) > Len(last.before.error_list)
    /\ Cardinality(DOMAIN kontroll_dokumentasjon) = 2

\* What to_dict returns for the report kept.
HeldDict == to_dict(HeldReport(held[1]), kontroll_dokumentasjon)

\* C12: once a report is built, later control runs change neither its
\* quality_control_errors nor the 'kontrollutslag' and
\* 'kontrolldokumentasjon' values of its to_dict.
C12_ReportIsSnapshot ==
    [][(~IsNone(held) /\ held' = held) =>
          /\ HeldErrors(held[1])' = HeldErrors(held[1])
          /\ HeldDict'.kontrollutslag = HeldDict.kontrollutslag
          /\ HeldDict'.kontrolldokumentasjon = HeldDict.kontrolldokumentasjon
      ]_vars

\* C13: a call whose check function raises, or whose id column is missing
\* from the data while a row is flagged, ends in that exception, and
\* error_list and kontroll_dokumentasjon are as before the call; with no
\* row flagged a missing id column raises nothing.
C13_RaiseLeavesGlobals ==
    last.op \in {"kontroll", "kontroll_raised"} =>
        LET c == last.ctrl
            fails ==
                \/ CheckRaises(c.check)
                \/ /\ c.id_column \notin {"Alder", "ident"}
                   /\ FlaggedIdx(c, last.data) # {}
        IN  /\ fails <=> last.op = "kontroll_raised"
            /\ last.op = "kontroll_raised" =>
                  /\ last.exception
                        = IF CheckRaises(c.check) THEN "Exception"
                          ELSE "KeyError"
                  /\ error_list = last.before.error_list
                  /\ kontroll_dokumentasjon
                        = last.before.kontroll_dokumentasjon

\* A call that flags a row and fails on the missing id column, after an
\* earlier call has filled the globals.
C13_Witness ==
    /\ last.op = "kontroll_raised"
    /\ last.exception = "KeyError"
    /\ Len(error_list) > 0
    /\ DOMAIN kontroll_dokumentasjon # {}

\* C14: beregn_treffsikkerhet returns, for every control of the report's
\* documentation and for 'total', a value between 0 and 100, and for a
\* control that value is the percentage of its flagged (observasjon_id,
\* variable) cells that are in the list of edits.
C14_AccuracyIsShareOfCells ==
    (last.op = "treffsikkerhet" /\ last.result.outcome = "returned") =>
        \A i \in DOMAIN last.result.treffsikkerhet :
            LET v == last.result.treffsikkerhet[i]
                cells == CellerMarkert(last.quality_report, i)
            IN  /\ 0 <= v.num
                /\ v.num <= 100 * v.den
                /\ i # "total" =>
                      v.num * Cardinality(cells)
                          = 100 * v.den
                              * Cardinality(cells \cap Range(last.edits))

\* The selected keys that are in variable_options, in order.
PresentKeys(selected_keys) ==
    SelectSeq(selected_keys, LAMBDA key : key \in DOMAIN variable_options)

\* C15: create_variable_selector_content raises no error for selected keys
\* that are not in variable_options, and returns one card, in order, for
\* each selected key that is (the default values being of supported types).
C15_UnknownKeysIgnored ==
    (/\ last.op = "create_variable_selector_content"
     /\ \A key \in DOMAIN last.default_values :
            IsSupportedValue(last.default_values[key])) =>
        /\ last.result.outcome = "returned"
        /\ last.result.cards_list
               = [k \in 1..Len(PresentKeys(last.selected_keys)) |->
                     CardOf(PresentKeys(last.selected_keys)[k],
                            last.default_values)]

C17_BuildLeavesGlobals ==
    last.op \in {"lag_kvalitetsrapport", "lag_kontroll_dokumentasjon"} =>
        /\ error_list = last.before.error_list
        /\ kontroll_dokumentasjon = last.before.kontroll_dokumentasjon

\* A build of the documentation table while the globals hold a run's
\* errors and entry.
C17_Witness ==
    /\ last.op = "lag_kontroll_dokumentasjon"
    /\ last.result # {}
    /\ error_list # << >>
    /\ error_list = last.before.error_list

\* The controls that have a Feilrapport in the list el.
ControlsIn(el) == {el[k].sub_control_id : k \in 1..Len(el)}

\* s occurs in el as consecutive elements.
OccursIn(s, el) ==
    \E off \in 0..(Len(el) - Len(s)) : SubSeq(el, off + 1, off + Len(s)) = s

\* C18: between a wrapper's append to the error list and its write of the
\* documentation entry there is a state of its own: the run's Feilrapport
\* objects are in the error list there, whatever the documentation holds,
\* and a control that has errors in the list and no documentation entry is
\* the control of a thread in that state.
C18_ErrorsBeforeDocumentation ==
    /\ \A t \in Threads :
          threads[t].pc = "extended" =>
              OccursIn(threads[t].new_error_details, error_list)
    /\ \A name \in ControlsIn(error_list) \ DOMAIN kontroll_dokumentasjon :
          \E t \in Threads : /\ threads[t].pc = "extended"
                             /\ threads[t].ctrl.name = name

\* An observer's dict has a run's errors and no documentation entry of
\* the control, the run being between its two writes.
C18_Witness ==
    /\ last.op = "to_dict"
    /\ \E t \in Threads :
          /\ threads[t].pc = "extended"
          /\ threads[t].new_error_details # << >>
          /\ OccursIn([k \in 1..Len(threads[t].new_error_details) |->
                          FeilrapportToDict(threads[t].new_error_details[k])],
                      last.dict.kontrollutslag)
          /\ threads[t].ctrl.name \notin DOMAIN last.dict.kontrolldokumentasjon

\* An observer's dict has a run's errors while the control's entry holds
\* the counts of an earlier run.
C18_WitnessStale ==
    /\ last.op = "to_dict"
    /\ \E t \in Threads :
          /\ threads[t].pc = "extended"
          /\ OccursIn([k \in 1..Len(threads[t].new_error_details) |->
                          FeilrapportToDict(threads[t].new_error_details[k])],
                      last.dict.kontrollutslag)
          /\ threads[t].ctrl.name \in DOMAIN last.dict.kontrolldokumentasjon
          /\ last.dict.kontrolldokumentasjon[threads[t].ctrl.name]
                 .Kontrollutslag # Len(threads[t].new_error_details)

\* The runs of the control called name, and the number of rows a run
\* flagged.
RunsOf(name) == {k \in 1..Len(runs) : runs[k].name = name}

FlaggedIn(k) == runs[k].flagged

\* C19: after any number of runs and report builds, the error list holds,
\* for each control, as many Feilrapport objects as its runs flagged rows
\* in all, a run leaving the earlier ones in place, while the control's
\* documentation entry has the Kontrollutslag of its last run only.
C19_ErrorsAccumulate ==
    /\ \A name \in {runs[k].name : k \in 1..Len(runs)} :
          /\ Cardinality({j \in 1..Len(error_list) :
                             error_list[j].sub_control_id = name})
                = SumOf([k \in RunsOf(name) |-> FlaggedIn(k)])
          /\ name \in DOMAIN kontroll_dokumentasjon
          /\ \E k \in RunsOf(name) :
                /\ \A j \in RunsOf(name) : j <= k
                /\ kontroll_dokumentasjon[name].Kontrollutslag = FlaggedIn(k)
    /\ Len(error_list) = SumOf([k \in 1..Len(runs) |-> FlaggedIn(k)])
    /\ last.op = "kontroll" => IsPrefix(last.before.error_list, error_list)

\* Two runs of one control that both flagged rows: the list has the
\* reports of both, the entry the count of the second.
C19_Witness ==
    /\ last.op = "kontroll"
    /\ Len(runs) = 2
    /\ runs[1].name = runs[2].name
    /\ FlaggedIn(1) > 0
    /\ FlaggedIn(2) > 0
    /\ Len(error_list) = FlaggedIn(1) + FlaggedIn(2)
    /\ kontroll_dokumentasjon[runs[2].name].Kontrollutslag = FlaggedIn(2)

\* C20: after remove_dismissed_alerts the store is the store before less
\* the alert whose displayed component was closed, under every filter: an
\* alert the filter hides, or one still open, stays in the store.
C20_RemovesExactlyDismissed ==
    last.op = "remove_dismissed_alerts" =>
        alerts.alert_store
            = SelectSeq(last.before,
                        LAMBDA a : a.created_at # last.closed.created_at)

\* C21: at an interval tick an alert of the store is shown in the
\* top-centre container exactly when it is ephemeral and less than 4
\* seconds old, and the tick leaves the alert store as it was.
C21_EphemeralShownFourSeconds ==
    last.op = "display_ephemeral_alerts" =>
        /\ alerts.alert_store = last.before
        /\ Len(alerts.ephemeral_children) <= Len(alerts.alert_store)
        /\ \A k \in 1..Len(alerts.alert_store) :
              LET a == alerts.alert_store[k]
              IN  (\E i \in 1..Len(alerts.ephemeral_children) :
                      /\ alerts.ephemeral_children[i].timestamp = a.timestamp
                      /\ alerts.ephemeral_children[i].message = a.message
                      /\ alerts.ephemeral_children[i].color = a.color)
                  <=> (a.ephemeral /\ alerts.clock - a.created_at < 4)

\* A tick at which an ephemeral alert exactly 4 seconds old is in the store
\* and is no longer shown, while a younger one is.
C21_Witness ==
    /\ last.op = "display_ephemeral_alerts"
    /\ alerts.ephemeral_children # << >>
    /\ \E k \in 1..Len(alerts.alert_store) :
          /\ alerts.alert_store[k].ephemeral
          /\ alerts.clock - alerts.alert_store[k].created_at = 4

\* The game is in step: the text is the first score + 2 characters of pi
\* and the high score is a number.
PiInStep(g) ==
    /\ ~IsNone(g.text_box) /\ ~IsNone(g.score) /\ ~IsNone(g.highscore)
    /\ g.text_box[1] = PiSlice(g.score[1] + 2)

\* C22: with the game in step, pressing the digit that is the next digit of
\* pi appends it to the text, adds 1 to the score and leaves the high
\* score; pressing another digit sets the text to '3.', the score to 0 and
\* the high score to the larger of the old high score and the score lost.
C22_DigitPress ==
    (last.op = "update_input" /\ PiInStep(last.before)) =>
        LET b == last.before
        IN  /\ last.outcome = "returned"
            /\ IF last.digit = pi[b.score[1] + 3]
               THEN /\ ui.pi.text_box = Some(b.text_box[1] \o <<last.digit>>)
                    /\ ui.pi.score = Some(b.score[1] + 1)
                    /\ ui.pi.highscore = b.highscore
               ELSE /\ ui.pi.text_box = Some(<<"3", ".">>)
                    /\ ui.pi.score = Some(0)
                    /\ ui.pi.highscore
                         = Some(IF b.score[1] > b.highscore[1]
                                THEN b.score[1] ELSE b.highscore[1])

\* main-varvelger is displayed: its style has no display none.
VarvelgerVisible ==
    \/ IsNone(ui.varvelger.style)
    \/ "display" \notin DOMAIN ui.varvelger.style[1]
    \/ ui.varvelger.style[1]["display"] # "none"

\* C23: after the call at page load and k clicks, main-varvelger is visible
\* exactly when k is odd, and a call without a click leaves the style as
\* it was.
C23_VisibleIffOddClicks ==
    /\ ui.varvelger.loaded =>
          (VarvelgerVisible <=> ScoreOrZero(ui.varvelger.n_clicks) % 2 = 1)
    /\ (last.op = "toggle_varvelger" /\ ~ClicksTruthy(last.n_clicks)) =>
          ui.varvelger.style = last.before

C25_UpdateTableNeverFails ==
    last.op = "update_table" =>
        IF IsNone(last.edited)
        THEN last.out.kind = "PreventUpdate" /\ ui.error_log = last.before
        ELSE /\ last.out.kind = "return"
             /\ Len(last.out.value) = Len(ValueOrEmpty(last.before)) + 1
             /\ last.out.value[1].color
                    = (IF last.update_raises THEN "danger" ELSE "info")
             /\ Tail(last.out.value) = ValueOrEmpty(last.before)
             /\ ui.error_log = Some(last.out.value)

\* C26: whatever the interleaving of two concurrent runs of decorated
\* controls, once both have returned the error list has grown by the
\* number of rows the two runs flagged, each control's Feilrapport objects
\* are as many as its runs flagged, and the documentation has an entry for
\* each control that ran.
C26_ConcurrentRunsComplete ==
    (\A t \in Threads : threads[t].pc = "idle") =>
        /\ Len(error_list) = SumOf([k \in 1..Len(runs) |-> FlaggedIn(k)])
        /\ \A name \in {runs[k].name : k \in 1..Len(runs)} :
              /\ Cardinality({j \in 1..Len(error_list) :
                                 error_list[j].sub_control_id = name})
                    = SumOf([k \in RunsOf(name) |-> FlaggedIn(k)])
              /\ name \in DOMAIN kontroll_dokumentasjon
        /\ \A j, k \in 1..Len(error_list) :
              (j # k /\ error_list[j] = error_list[k]) =>
                  Cardinality(RunsOf(error_list[j].sub_control_id)) > 1

\* Two runs of different controls have returned, both flagged rows, and
\* the first returned while the second was inside the wrapper.
C26_Witness ==
    /\ \A t \in Threads : threads[t].pc = "idle"
    /\ Len(runs) = 2
    /\ runs[1].interleaved
    /\ runs[1].name # runs[2].name
    /\ FlaggedIn(1) > 0
    /\ FlaggedIn(2) > 0
    /\ Len(error_list) = FlaggedIn(1) + FlaggedIn(2)

\* Two runs of one control have returned, interleaved.
C26_WitnessSameControl ==
    /\ \A t \in Threads : threads[t].pc = "idle"
    /\ Len(runs) = 2
    /\ runs[1].interleaved
    /\ runs[1].name = runs[2].name
    /\ FlaggedIn(1) > 0

\* C27: a call of a decorated control, whether it returns or raises,
\* leaves the table the caller passed as it was: the same rows and values
\* and no 'utslag' column added or dropped, also when the check function
\* writes its argument.
C27_CallerTableUntouched ==
    last.op \in {"kontroll", "kontroll_raised"} =>
        /\ last.caller = last.data
        /\ last.caller.has = last.data.has
        /\ frame \in {last.data} \cup
                     (IF last.op = "kontroll" THEN {last.returned} ELSE {})

\* A check function that writes its argument has flagged a row of a table
\* without flag column, called through a control without filter: the one
\* path on which only the copy separates the wrapper's table from the
\* caller's.
C27_Witness ==
    /\ last.op = "kontroll"
    /\ last.mode = "inplace"
    /\ ~last.data.has
    /\ IsNone(last.ctrl.filter_for_relevant_data)
    /\ FlaggedIdx(last.ctrl, last.data) # {}
    /\ last.caller = last.data
    /\ frame = last.data

\* The check function raised after the wrapper had initialised the flag
\* column of its copy.
C27_WitnessRaised ==
    /\ last.op = "kontroll_raised"
    /\ last.exception = "Exception"
    /\ ~last.data.has
    /\ IsNone(last.ctrl.filter_for_relevant_data)
    /\ Len(last.data.rows) > 0
    /\ frame = last.data

\* The last run of the control called name.
LatestRun(name) ==
    runs[CHOOSE k \in RunsOf(name) : \A j \in RunsOf(name) : j <= k]

\* C28: between calls, every control that has a Feilrapport in the error
\* list has an entry in the documentation, and the entry's kontrolltype
\* and feilbeskrivelse are those of the control's latest run, which the
\* Feilrapport objects that run appended carry.
C28_ListedControlsDocumented ==
    /\ \A name \in ControlsIn(error_list) :
          /\ name \in DOMAIN kontroll_dokumentasjon
          /\ RunsOf(name) # {}
          /\ kontroll_dokumentasjon[name].kontrolltype
                = KontrolltypeName(LatestRun(name).result_type)
          /\ kontroll_dokumentasjon[name].feilbeskrivelse
                = LatestRun(name).error_description
    /\ last.op = "kontroll" =>
          \A k \in (Len(last.before.error_list) + 1)..Len(error_list) :
              /\ error_list[k].sub_control_id = last.ctrl.name
              /\ KontrolltypeName(error_list[k].result_type)
                    = kontroll_dokumentasjon[last.ctrl.name].kontrolltype
              /\ error_list[k].error_description
                    = kontroll_dokumentasjon[last.ctrl.name].feilbeskrivelse

\* A control was redefined under its name with another result type and
\* description and has run under both definitions, each run flagging a
\* row: the list has reports of both, the entry is that of the second.
C28_Witness ==
    /\ last.op = "kontroll"
    /\ Len(runs) = 2
    /\ runs[1].name = runs[2].name
    /\ runs[1].result_type # runs[2].result_type
    /\ FlaggedIn(1) > 0
    /\ FlaggedIn(2) > 0
    /\ error_list[1].result_type # error_list[Len(error_list)].result_type
    /\ kontroll_dokumentasjon[runs[2].name].kontrolltype
           = KontrolltypeName(error_list[Len(error_list)].result_type)

====
